---- MODULE Spec2Model ----
(***************************************************************************)
(* Workspace Navigator: the standalone WorkspaceManager (workspace store)  *)
(* of src/workspace-manager.ts (second revision, lines 240-691) and the    *)
(* plugin glue of src/unnamed/part_000 that listens to its events.        *)
(*                                                                         *)
(* Abstractions:                                                           *)
(*  - a WorkspaceData record keeps `layout` and `folderExpandState`;       *)
(*    `lastSaved` and `metadata` are written or absent but never read by   *)
(*    any operation and are left out;                                      *)
(*  - the layout blob is one of a few opaque tokens;                       *)
(*  - the folder-expansion array is the set of the folder paths in it;    *)
(*  - of the development logger (WorkspaceLogger) only the suspension of  *)
(*    onunload on the save of the log is kept;                             *)
(*  - workspace names are drawn from ordinary names, blank names and one   *)
(*    name that Object.prototype defines ("constructor"); "__proto__",     *)
(*    whose assignment replaces the prototype, is not among them;          *)
(*                                                                         *)
(* Specifications: Spec (the store's operations), SpecIO (save and load    *)
(* against a changing environment), SpecNav (the plugin's gestures),       *)
(* SpecPersist (the gestures and the persists of the plugin data),         *)
(* SpecAuto (the auto-save timer, loads and unload), SpecList (the listing *)
(* of the names), SpecView (the tabs and widths of the sidebars, the body  *)
(* attribute and the rename), SpecDup (duplicate), SpecSwitch (the         *)
(* selection in the switcher with Shift or Alt), SpecNavFair (SpecNav with *)
(* a host that settles what is awaited), SpecStale (the auto-save timer    *)
(* beside deletes and renames), SpecOverlap (store operations called while *)
(* another is suspended) and SpecAttr (the body attribute beside create,   *)
(* load and delete).  Each leaves alone the variables of the others.       *)
(***************************************************************************)
EXTENDS Integers, FiniteSets, Sequences, TLC

VARIABLES
    workspaces,          \* storage.workspaces: own keys -> WorkspaceData
    activeWorkspace,     \* storage.activeWorkspace
    engineLayout,        \* what app.workspace.getLayout() reports
    folderStore,         \* localStorage 'file-explorer-unfold'
    fsPending,           \* the write to localStorage that is in flight, if any
    explorer,            \* file explorer plugin: enabled flag and expanded folders
    leftCollapsed,       \* app.workspace.leftSplit.collapsed
    rightCollapsed,      \* app.workspace.rightSplit.collapsed
    navigationLayouts,   \* plugin.navigationLayouts
    isLoadingWorkspace,  \* plugin.isLoadingWorkspace
    settings,            \* plugin.settings (the flags the model reads)
    call,                \* the asynchronous call that is suspended, if any
    last,                \* what the most recent store call reported
    roundTrip,           \* observer: the state captured by a save that a load follows
    disk,                \* the plugin's persisted data (data.json)
    saveQueue,           \* plugin.saveQueue: the chain of persists not yet run
    queueWrite,          \* the saveData of the running persist of the chain
    directWrite,         \* the saveData issued by saveNavigationLayout
    gesture,             \* the gesture whose handler is suspended, if any
    timers,              \* the host's pending timers set by the plugin
    autoSaveTimeout,     \* plugin.autoSaveTimeout: a timer handle or null
    lifecycle,           \* the plugin is running, unloading or unloaded
    auto,                \* the timer callback that is suspended, if any
    watch,               \* observer of the timers and of the chain
    keys,                \* Object.keys of the store whose names are listed
    listed,              \* what getItems() returned last
    sidebarView,         \* the active tab and the width of each sidebar
    dataWorkspaceName,   \* the body's data-workspace-name attribute
    aliased              \* observer: the names whose records or snapshots are one object

vars == <<workspaces, activeWorkspace, engineLayout, folderStore,
          fsPending, explorer, leftCollapsed, rightCollapsed,
          navigationLayouts, isLoadingWorkspace, settings, call, last,
          roundTrip, disk, saveQueue, queueWrite, directWrite, gesture,
          timers, autoSaveTimeout, lifecycle, auto, watch, keys, listed,
          sidebarView, dataWorkspaceName, aliased>>

storeVars == <<workspaces, activeWorkspace>>
panelVars == <<leftCollapsed, rightCollapsed>>
pluginVars == <<navigationLayouts, settings>>
persistVars == <<disk, saveQueue, queueWrite, directWrite, gesture>>
timerVars == <<timers, autoSaveTimeout, lifecycle, auto>>
listVars == <<keys, listed>>
uiVars == <<sidebarView, dataWorkspaceName, aliased>>
extVars == <<persistVars, timerVars, listVars, watch, uiVars>>
memVars == <<workspaces, activeWorkspace, engineLayout, folderStore, fsPending,
             explorer, leftCollapsed, rightCollapsed, navigationLayouts,
             isLoadingWorkspace, settings, call, last>>

-----------------------------------------------------------------------------
(* Bounds and value domains *)

\* the most records the store holds in the model
MaxWorkspaces == 2
\* the most persists that wait in the chain in the model
MaxPending == 2
\* the most timer handles in use at once in the model
MaxTimers == 3
\* the quiet period of the auto-save, in units of 1000 ms
QuietPeriod == 2

Names == {"A", "B", "C"}
\* a key every JavaScript object inherits from Object.prototype
ProtoNames == {"constructor"}
\* the empty name and a name of white space only
BlankNames == {"", " "}
KeyNames == Names \cup ProtoNames
AllNames == KeyNames \cup BlankNames

Layouts == {"L1", "L2"}
Folders == {"f1"}

NullName == "<null>"
UndefinedLayout == "<undefined>"

\* JavaScript values held by folderExpandState and by the folder-state store
JNull == [t |-> "null", v |-> {}]
JUndefined == [t |-> "undefined", v |-> {}]
JArray(s) == [t |-> "array", v |-> s]
FolderArrays == {JArray(s) : s \in SUBSET Folders}
StoreValues == {JNull} \cup FolderArrays

\* JavaScript truthiness: null and undefined are falsy, every array is truthy
Truthy(x) == x.t = "array"

NoWrite == [pending |-> FALSE, val |-> JNull]
Write(x) == [pending |-> TRUE, val |-> x]

WorkspaceData(layout, fes) == [layout |-> layout, folderExpandState |-> fes]
\* Object.prototype.constructor read as a WorkspaceData: its fields are undefined
InheritedValue == WorkspaceData(UndefinedLayout, JUndefined)

IdleCall ==
    [pc |-> "idle", name |-> "", flag |-> FALSE, ws |-> InheritedValue, saw |-> JNull]

NoRoundTrip ==
    [stage |-> "none", name |-> "", store |-> JNull,
     tree |-> [enabled |-> FALSE, expanded |-> {}],
     left |-> FALSE, right |-> FALSE]

\* what a call reported: the notice or outcome, the event it triggered, whether
\* it called changeLayout and whether it swallowed an error of changeLayout
Report(op, res, event, applied, swallowed) ==
    [op |-> op, res |-> res, event |-> event, applied |-> applied,
     swallowed |-> swallowed]

-----------------------------------------------------------------------------
(* Pure helpers of the store *)

\* name.trim() on the names of the model
Trim(name) == IF name = " " THEN "" ELSE name

IsBlankNoTrim(name) == name = ""
\* !name || name.trim() === ''
IsBlank(name) == name = "" \/ Trim(name) = ""

HasWorkspaceNever(name) == FALSE
\* name in this.storage.workspaces: own and inherited keys
HasWorkspace(name) == name \in DOMAIN workspaces \/ name \in ProtoNames

\* this.storage.workspaces[name] || null ; found tells null from an object
Found(name) == name \in DOMAIN workspaces \/ name \in ProtoNames
GetWorkspace(name) ==
    IF name \in DOMAIN workspaces THEN workspaces[name] ELSE InheritedValue

PutReplacing(ws, name, data) == [k \in {name} |-> data]
\* this.storage.workspaces[name] = data
Put(ws, name, data) ==
    [k \in DOMAIN ws \cup {name} |-> IF k = name THEN data ELSE ws[k]]

\* delete this.storage.workspaces[name]
Remove(ws, name) == [k \in DOMAIN ws \ {name} |-> ws[k]]

-----------------------------------------------------------------------------
(* Plugin listeners (src/unnamed/part_000) *)

RestoreEnabledAlways == TRUE
\* per-workspace restoration is switched on
RestoreEnabled ==
    settings.rememberNavigationLayout /\ ~settings.maintainLayoutAcrossWorkspaces

RestoredCollapsedAsFound(name, side, collapsed) == collapsed
\* restoreNavigationLayout(name) on one split: the collapsed flag afterwards
RestoredCollapsed(name, side, collapsed) ==
    IF ~RestoreEnabled \/ name \notin DOMAIN navigationLayouts
    THEN collapsed
    ELSE LET open == navigationLayouts[name][side] IN
         IF open /\ collapsed THEN FALSE
         ELSE IF ~open /\ ~collapsed THEN TRUE
         ELSE collapsed

\* getCurrentNavigationLayout(): the open flag, the active tab and the width
\* of the two sidebars
CurrentNavigationLayout ==
    [leftSidebarOpen |-> ~leftCollapsed, rightSidebarOpen |-> ~rightCollapsed,
     leftSidebarTab |-> sidebarView.leftSidebarTab,
     rightSidebarTab |-> sidebarView.rightSidebarTab,
     leftSidebarWidth |-> sidebarView.leftSidebarWidth,
     rightSidebarWidth |-> sidebarView.rightSidebarWidth]

\* saveNavigationLayout(name) up to its await of saveData
NavigationLayoutsSaved(name) ==
    IF settings.rememberNavigationLayout
    THEN [k \in DOMAIN navigationLayouts \cup {name} |->
             IF k = name THEN CurrentNavigationLayout ELSE navigationLayouts[k]]
    ELSE navigationLayouts

-----------------------------------------------------------------------------
(* WorkspaceManager.deleteWorkspace *)

ActiveAfterDeleteStale(name) == activeWorkspace
\* the active pointer once name is deleted
ActiveAfterDelete(name) ==
    IF activeWorkspace = name THEN NullName ELSE activeWorkspace

DeleteWorkspace(name) ==
    /\ IF ~HasWorkspace(name)
       THEN /\ last' = Report("delete", "notfound", "none", FALSE, FALSE)
            /\ UNCHANGED storeVars
       ELSE /\ workspaces' = Remove(workspaces, name)
            /\ activeWorkspace' = ActiveAfterDelete(name)
            /\ last' = Report("delete", "ok", "workspace-delete", FALSE, FALSE)
    /\ UNCHANGED <<engineLayout, folderStore, fsPending, explorer, panelVars,
                   settings, isLoadingWorkspace, call>>

(* WorkspaceManager.renameWorkspace *)

RenameWorkspace(oldName, newName) ==
    /\ IF ~HasWorkspace(oldName)
       THEN /\ last' = Report("rename", "notfound", "none", FALSE, FALSE)
            /\ UNCHANGED storeVars
       ELSE IF HasWorkspace(newName)
       THEN /\ last' = Report("rename", "exists", "none", FALSE, FALSE)
            /\ UNCHANGED storeVars
       ELSE IF IsBlank(newName)
       THEN /\ last' = Report("rename", "empty", "none", FALSE, FALSE)
            /\ UNCHANGED storeVars
       ELSE /\ workspaces' =
                   Remove(Put(workspaces, newName, GetWorkspace(oldName)), oldName)
            /\ activeWorkspace' =
                   IF activeWorkspace = oldName THEN newName ELSE activeWorkspace
            /\ last' = Report("rename", "ok", "workspace-rename", FALSE, FALSE)
    /\ UNCHANGED <<engineLayout, folderStore, fsPending, explorer, panelVars,
                   settings, isLoadingWorkspace, call>>

(* WorkspaceManager.setActiveWorkspace *)

SetActiveWorkspace(name) ==
    /\ IF HasWorkspace(name)
       THEN /\ activeWorkspace' = name
            /\ last' = Report("setActive", "ok", "none", FALSE, FALSE)
       ELSE /\ UNCHANGED activeWorkspace
            /\ last' = Report("setActive", "ignored", "none", FALSE, FALSE)
    /\ UNCHANGED <<workspaces, engineLayout, folderStore, fsPending, explorer,
                   panelVars, pluginVars, isLoadingWorkspace, call>>

-----------------------------------------------------------------------------
(* WorkspaceManager.saveWorkspace *)

CapturedFolderStateStoreOnly(read) == read
\* the capture of the folder state: the value read from localStorage, or, when
\* that is null, the expanded folders of the file explorer tree if there are any
CapturedFolderState(read) ==
    IF read = JNull /\ explorer.enabled /\ explorer.expanded # {}
    THEN JArray(explorer.expanded)
    ELSE read

\* this.storage.workspaces[name] = {...}; this.storage.activeWorkspace = name
StoreRecord(name, data) ==
    /\ workspaces' = Put(workspaces, name, data)
    /\ activeWorkspace' = name

\* the call up to its first suspension (await loadLocalStorage) or its return;
\* throws: getLayout or loadLocalStorage throws
SaveCall(name, saveFolderState, throws) ==
    /\ IF IsBlank(name)
       THEN /\ last' = Report("save", "empty", "none", FALSE, FALSE)
            /\ call' = IdleCall
            /\ UNCHANGED storeVars
       ELSE IF throws
       THEN /\ last' = Report("save", "raised", "none", FALSE, FALSE)
            /\ call' = IdleCall
            /\ UNCHANGED storeVars
       ELSE IF ~saveFolderState
       THEN /\ StoreRecord(name, WorkspaceData(engineLayout, JUndefined))
            /\ last' = Report("save", "ok", "none", FALSE, FALSE)
            /\ call' = IdleCall
       ELSE /\ call' = [pc |-> "save_read", name |-> name, flag |-> TRUE,
                        ws |-> WorkspaceData(engineLayout, folderStore),
                        saw |-> JNull]
            /\ last' = Report("save", "pending", "none", FALSE, FALSE)
            /\ UNCHANGED storeVars
    /\ UNCHANGED <<engineLayout, folderStore, fsPending, explorer, panelVars,
                   pluginVars, isLoadingWorkspace>>

\* the read of localStorage resolves: the rest of saveWorkspace
SaveResume ==
    /\ call.pc = "save_read"
    /\ StoreRecord(call.name,
                   WorkspaceData(call.ws.layout,
                                 CapturedFolderState(call.ws.folderExpandState)))
    /\ last' = Report("save", "ok", "none", FALSE, FALSE)
    /\ call' = IdleCall
    /\ UNCHANGED <<engineLayout, folderStore, fsPending, explorer, panelVars,
                   pluginVars, isLoadingWorkspace>>

SaveReadRejectsStored ==
    /\ call.pc = "save_read"
    /\ StoreRecord(call.name, WorkspaceData(call.ws.layout, JUndefined))
    /\ last' = Report("save", "raised", "none", FALSE, FALSE)
    /\ call' = IdleCall
    /\ UNCHANGED <<engineLayout, folderStore, fsPending, explorer, panelVars,
                   pluginVars, isLoadingWorkspace>>
\* the read of localStorage rejects: the catch block rethrows
SaveReadRejects ==
    /\ call.pc = "save_read"
    /\ last' = Report("save", "raised", "none", FALSE, FALSE)
    /\ call' = IdleCall
    /\ UNCHANGED <<storeVars, engineLayout, folderStore, fsPending, explorer,
                   panelVars, pluginVars, isLoadingWorkspace>>

-----------------------------------------------------------------------------
(* WorkspaceManager.loadWorkspace *)

FolderWriteValueNoClear(ws) ==
    IF Truthy(ws.folderExpandState) THEN ws.folderExpandState ELSE folderStore
\* what load writes to localStorage when restoreFolderState is set
FolderWriteValue(ws) ==
    IF Truthy(ws.folderExpandState) THEN ws.folderExpandState ELSE JNull

PcAfterFolderWriteNoAwait == "load_apply"
\* where load stands once it has issued the write: suspended on it (await)
PcAfterFolderWrite == "load_write"

\* the layout engine rebuilds the file explorer from the folder state it read
ExplorerRebuilt(took, saw) ==
    IF took /\ explorer.enabled
    THEN [explorer EXCEPT !.expanded = IF Truthy(saw) THEN saw.v ELSE {}]
    ELSE explorer

\* the forced refresh of the file explorer tree after changeLayout
ExplorerRefreshed(e, restoreFolderState, ws) ==
    IF e.enabled /\ restoreFolderState
    THEN [e EXCEPT !.expanded = IF Truthy(ws.folderExpandState)
                                THEN ws.folderExpandState.v ELSE {}]
    ELSE e

\* the call up to its first suspension or its return;
\* throws: saveLocalStorage throws. The caller decides isLoadingWorkspace.
LoadCall(name, restoreFolderState, throws) ==
    /\ IF ~Found(name)
       THEN /\ last' = Report("load", "notfound", "none", FALSE, FALSE)
            /\ call' = IdleCall
            /\ UNCHANGED fsPending
       ELSE IF restoreFolderState /\ throws
       THEN /\ last' = Report("load", "raised", "none", FALSE, FALSE)
            /\ call' = IdleCall
            /\ UNCHANGED fsPending
       ELSE IF restoreFolderState
       THEN /\ fsPending' = Write(FolderWriteValue(GetWorkspace(name)))
            /\ call' = [pc |-> PcAfterFolderWrite, name |-> name, flag |-> TRUE,
                        ws |-> GetWorkspace(name), saw |-> folderStore]
            /\ last' = Report("load", "pending", "none",
                              PcAfterFolderWrite = "load_apply", FALSE)
       ELSE /\ call' = [pc |-> "load_apply", name |-> name, flag |-> FALSE,
                        ws |-> GetWorkspace(name), saw |-> folderStore]
            /\ last' = Report("load", "pending", "none", TRUE, FALSE)
            /\ UNCHANGED fsPending
    /\ UNCHANGED <<storeVars, engineLayout, folderStore, explorer, panelVars,
                   pluginVars>>

\* the write to localStorage completes; a load suspended on it calls changeLayout
FsWriteDone ==
    /\ fsPending.pending
    /\ folderStore' = fsPending.val
    /\ fsPending' = NoWrite
    /\ IF call.pc = "load_write"
       THEN /\ call' = [call EXCEPT !.pc = "load_apply", !.saw = fsPending.val]
            /\ last' = [last EXCEPT !.applied = TRUE]
       ELSE UNCHANGED <<call, last>>
    /\ UNCHANGED <<storeVars, engineLayout, explorer, panelVars, pluginVars,
                   isLoadingWorkspace>>

\* the write to localStorage rejects; a load suspended on it rethrows
FsWriteRejects ==
    /\ fsPending.pending
    /\ fsPending' = NoWrite
    /\ IF call.pc = "load_write"
       THEN /\ call' = IdleCall
            /\ last' = Report("load", "raised", "none", FALSE, FALSE)
       ELSE UNCHANGED <<call, last>>
    /\ UNCHANGED <<storeVars, engineLayout, folderStore, explorer, panelVars,
                   pluginVars, isLoadingWorkspace>>

LayoutErrorPropagates == FALSE
\* the try/catch around changeLayout: an error it raises is logged and dropped
LayoutErrorSwallowed == TRUE

\* changeLayout returns (ok) or raises (~ok); took: the engine installed the
\* layout; pl, pr: the collapsed flags the engine leaves the sidebars with.
\* Then the rest of loadWorkspace, with the 'workspace-open' listener of the
\* plugin (afterWorkspaceLoad).
LayoutApplied(ok, took, pl, pr) ==
    /\ call.pc = "load_apply"
    /\ ok => took
    /\ engineLayout' = IF took /\ call.ws.layout \in Layouts
                       THEN call.ws.layout ELSE engineLayout
    /\ call' = IdleCall
    /\ IF ok \/ LayoutErrorSwallowed
       THEN /\ explorer' = ExplorerRefreshed(ExplorerRebuilt(took, call.saw),
                                            call.flag, call.ws)
            /\ activeWorkspace' = call.name
            /\ leftCollapsed' = RestoredCollapsed(call.name, "leftSidebarOpen", pl)
            /\ rightCollapsed' = RestoredCollapsed(call.name, "rightSidebarOpen", pr)
            /\ isLoadingWorkspace' = FALSE
            /\ last' = Report("load", "ok", "workspace-open", TRUE, ~ok)
       ELSE /\ explorer' = ExplorerRebuilt(took, call.saw)
            /\ leftCollapsed' = pl
            /\ rightCollapsed' = pr
            /\ last' = Report("load", "raised", "none", TRUE, FALSE)
            /\ UNCHANGED <<activeWorkspace, isLoadingWorkspace>>
    /\ UNCHANGED <<workspaces, folderStore, fsPending, pluginVars>>

-----------------------------------------------------------------------------
(* The environment: the user and the host application *)

ExplorerStates ==
    {[enabled |-> FALSE, expanded |-> {}]} \cup
    {[enabled |-> TRUE, expanded |-> s] : s \in SUBSET Folders}

\* the user rearranges the panes
LayoutChange(l) ==
    /\ l # engineLayout
    /\ engineLayout' = l
    /\ UNCHANGED <<storeVars, folderStore, fsPending, explorer, panelVars,
                   pluginVars, isLoadingWorkspace, call, last>>

\* the host or another extension rewrites the folder-state store
FolderStoreChange(v) ==
    /\ v # folderStore
    /\ folderStore' = v
    /\ UNCHANGED <<storeVars, engineLayout, fsPending, explorer, panelVars,
                   pluginVars, isLoadingWorkspace, call, last>>

\* the user expands or collapses folders, or the file explorer is switched
ExplorerChange(e) ==
    /\ e # explorer
    /\ explorer' = e
    /\ UNCHANGED <<storeVars, engineLayout, folderStore, fsPending, panelVars,
                   pluginVars, isLoadingWorkspace, call, last>>

-----------------------------------------------------------------------------
(* Specification of the store: one caller, each call awaited *)

\* no two names share the object of their record or of their snapshot
NoAlias == [ws |-> {}, nav |-> {}]

\* the sidebars as the host starts them: the type of the view in the active
\* tab and the width in pixels
DefaultView ==
    [leftSidebarTab |-> "file-explorer", rightSidebarTab |-> "outline",
     leftSidebarWidth |-> 300, rightSidebarWidth |-> 300]

\* DEFAULT_SETTINGS; autoSaveOnLayoutChange is not in it and reads undefined
DefaultSettings ==
    [rememberNavigationLayout |-> TRUE, maintainLayoutAcrossWorkspaces |-> FALSE,
     sortWorkspacesAlphabetically |-> TRUE, autoSaveOnLayoutChange |-> FALSE]

EmptyMap == [k \in {} |-> InheritedValue]

\* the data a fresh installation has: loadData() returns null
NoData ==
    [written |-> FALSE, hasStorage |-> FALSE, workspaces |-> EmptyMap,
     activeWorkspace |-> NullName, navigationLayouts |-> EmptyMap,
     settings |-> DefaultSettings]
\* no saveData in flight
NoSaveData == [busy |-> FALSE, blob |-> NoData]
EmptyQueue == [pending |-> 0, rejected |-> FALSE]
\* setTimeout never returns 0
NullTimer == 0
IdleAuto ==
    [pc |-> "idle", name |-> "", layout |-> UndefinedLayout, read |-> JNull]
\* the observer: of the timers, the auto-saves begun and the notifications
\* seen since a timer was last scheduled, the time since then and the timers
\* a load of another workspace found pending; of the chain, whether a persist
\* failed, whether one wrote after that and whether the save command ran; of
\* the create gestures, what the last one had typed, the notice of rejection
\* it showed and whether their number is odd
NoWatch ==
    [saves |-> 0, scheduled |-> FALSE, burst |-> 0, sinceNotify |-> 0,
     stale |-> {},
     persistFailed |-> FALSE, wroteAfter |-> FALSE, commandUsed |-> FALSE,
     notice |-> [typed |-> "", text |-> "none", odd |-> FALSE],
     dup |-> [source |-> "", target |-> "", gesture |-> FALSE, calls |-> 0],
     sel |-> [key |-> "none", target |-> "", current |-> "", captured |-> "",
              stage |-> "none"]]

Init ==
    /\ workspaces = EmptyMap
    /\ activeWorkspace = NullName
    /\ engineLayout = "L1"
    /\ folderStore = JNull
    /\ fsPending = NoWrite
    /\ explorer = [enabled |-> TRUE, expanded |-> {}]
    /\ leftCollapsed = FALSE
    /\ rightCollapsed = FALSE
    /\ navigationLayouts = EmptyMap
    /\ isLoadingWorkspace = FALSE
    /\ settings = DefaultSettings
    /\ call = IdleCall
    /\ last = Report("none", "none", "none", FALSE, FALSE)
    /\ roundTrip = NoRoundTrip
    /\ disk = NoData
    /\ saveQueue = EmptyQueue
    /\ queueWrite = NoSaveData
    /\ directWrite = NoSaveData
    /\ gesture = "none"
    /\ timers = {}
    /\ autoSaveTimeout = NullTimer
    /\ lifecycle = "running"
    /\ auto = IdleAuto
    /\ watch = NoWatch
    /\ keys = << >>
    /\ listed = << >>
    /\ sidebarView = DefaultView
    /\ dataWorkspaceName = NullName
    /\ aliased = NoAlias

Idle == call.pc = "idle"

\* the model holds at most MaxWorkspaces records
Room(name) ==
    name \in DOMAIN workspaces \/ Cardinality(DOMAIN workspaces) < MaxWorkspaces

Save == \E name \in AllNames, f \in BOOLEAN, t \in BOOLEAN :
            /\ Idle /\ Room(name) /\ SaveCall(name, f, t)
            /\ UNCHANGED <<roundTrip, extVars>>
SaveResumed == SaveResume /\ UNCHANGED <<roundTrip, extVars>>
SaveRejected == SaveReadRejects /\ UNCHANGED <<roundTrip, extVars>>
Load == \E name \in AllNames, f \in BOOLEAN, t \in BOOLEAN :
            /\ Idle /\ LoadCall(name, f, t)
            /\ UNCHANGED <<isLoadingWorkspace, roundTrip, extVars>>
FolderWritten == FsWriteDone /\ UNCHANGED <<roundTrip, extVars>>
FolderWriteFailed == FsWriteRejects /\ UNCHANGED <<roundTrip, extVars>>
Delete == \E name \in AllNames :
            /\ Idle /\ DeleteWorkspace(name)
            /\ UNCHANGED <<navigationLayouts, roundTrip, extVars>>
Rename == \E o \in AllNames, n \in AllNames :
            /\ Idle /\ (o \in DOMAIN workspaces \/ Room(n))
            /\ RenameWorkspace(o, n)
            /\ UNCHANGED <<navigationLayouts, roundTrip, extVars>>
SetActive == \E name \in AllNames :
            Idle /\ SetActiveWorkspace(name) /\ UNCHANGED <<roundTrip, extVars>>
Applied == \E ok \in BOOLEAN, took \in BOOLEAN :
            /\ LayoutApplied(ok, took, leftCollapsed, rightCollapsed)
            /\ UNCHANGED <<roundTrip, extVars>>
EnvLayout == \E l \in Layouts : LayoutChange(l) /\ UNCHANGED <<roundTrip, extVars>>
EnvFolderStore ==
    \E v \in StoreValues : FolderStoreChange(v) /\ UNCHANGED <<roundTrip, extVars>>
EnvExplorer ==
    \E e \in ExplorerStates : ExplorerChange(e) /\ UNCHANGED <<roundTrip, extVars>>

Next ==
    \/ Save
    \/ SaveResumed
    \/ SaveRejected
    \/ Load
    \/ FolderWritten
    \/ FolderWriteFailed
    \/ Applied
    \/ Delete
    \/ Rename
    \/ SetActive
    \/ EnvLayout

Spec == Init /\ [][Next]_vars

-----------------------------------------------------------------------------
(* Specification of save and load against a changing environment: the      *)
(* folder-state store and the file explorer change between the calls       *)

IONames == {"A", "B"}

SaveIO == \E name \in IONames, f \in BOOLEAN, t \in BOOLEAN :
            /\ Idle /\ SaveCall(name, f, t)
            /\ UNCHANGED <<roundTrip, extVars>>
LoadIO == \E name \in IONames, f \in BOOLEAN, t \in BOOLEAN :
            /\ Idle /\ LoadCall(name, f, t)
            /\ UNCHANGED <<isLoadingWorkspace, roundTrip, extVars>>

NextIO ==
    \/ SaveIO
    \/ SaveResumed
    \/ SaveRejected
    \/ LoadIO
    \/ FolderWritten
    \/ FolderWriteFailed
    \/ Applied
    \/ EnvLayout
    \/ EnvFolderStore
    \/ EnvExplorer

SpecIO == Init /\ [][NextIO]_vars

-----------------------------------------------------------------------------
(* Specification of the plugin: the user's gestures, with the sidebars, the *)
(* folder-state store and the file explorer changing between them           *)

NavNames == {"A"}

\* the observer after a step of a save: a save that stored the record leaves
\* it ready for the load, one still suspended leaves it as it is
RoundTripAfterSave ==
    IF roundTrip.stage = "saving" /\ last'.op = "save" /\ last'.res = "ok"
    THEN [roundTrip EXCEPT !.stage = "saved"]
    ELSE IF roundTrip.stage = "saving" /\ last'.res = "pending"
    THEN roundTrip
    ELSE NoRoundTrip

\* createNewWorkspace of the modal, up to the end of saveWorkspace or its
\* suspension: the typed name is trimmed
CreateNewWorkspace(typed, throws) ==
    IF IsBlank(typed) \/ HasWorkspace(Trim(typed))
    THEN UNCHANGED <<storeVars, engineLayout, folderStore, fsPending, explorer,
                     panelVars, pluginVars, isLoadingWorkspace, call, last>>
    ELSE SaveCall(Trim(typed), settings.rememberNavigationLayout, throws)

\* 'Save current workspace' up to the await in saveNavigationLayout
SaveCurrentWorkspace ==
    /\ IF activeWorkspace = NullName
       THEN UNCHANGED <<navigationLayouts, call>>
       ELSE /\ navigationLayouts' = NavigationLayoutsSaved(activeWorkspace)
            /\ call' = [IdleCall EXCEPT !.pc = "nav_persist",
                                        !.name = activeWorkspace]
    /\ UNCHANGED <<storeVars, engineLayout, folderStore, fsPending, explorer,
                   panelVars, settings, isLoadingWorkspace, last>>

\* saveNavigationLayout returns: the gesture goes on to saveWorkspace
NavigationLayoutSaved(throws) ==
    /\ call.pc = "nav_persist"
    /\ SaveCall(call.name, settings.rememberNavigationLayout, throws)

\* saveData rejects in saveNavigationLayout: the gesture ends there
NavigationLayoutSaveRejects ==
    /\ call.pc = "nav_persist"
    /\ call' = IdleCall
    /\ UNCHANGED <<storeVars, engineLayout, folderStore, fsPending, explorer,
                   panelVars, pluginVars, isLoadingWorkspace, last>>

\* loadWorkspace of the plugin: beforeWorkspaceLoad, then the manager's load
PluginLoadWorkspace(name, throws) ==
    /\ isLoadingWorkspace' = TRUE
    /\ LoadCall(name, RestoreEnabled, throws)

\* the user opens or closes a sidebar
SidebarToggled ==
    /\ \/ leftCollapsed' = ~leftCollapsed /\ UNCHANGED rightCollapsed
       \/ rightCollapsed' = ~rightCollapsed /\ UNCHANGED leftCollapsed
    /\ UNCHANGED <<storeVars, engineLayout, folderStore, fsPending, explorer,
                   pluginVars, isLoadingWorkspace, call, last>>

\* the user flips a switch of the settings tab (its persist is apart)
SettingToggled(key) ==
    /\ settings' = [settings EXCEPT ![key] = ~settings[key]]
    /\ UNCHANGED <<storeVars, engineLayout, folderStore, fsPending, explorer,
                   panelVars, navigationLayouts, isLoadingWorkspace, call, last>>

CreateGesture ==
    \E typed \in NavNames \cup BlankNames \cup ProtoNames, t \in BOOLEAN :
        /\ Idle
        /\ CreateNewWorkspace(typed, t)
        /\ roundTrip' = NoRoundTrip
        /\ UNCHANGED extVars

SaveGesture ==
    /\ Idle
    /\ SaveCurrentWorkspace
    /\ roundTrip' =
          IF activeWorkspace = NullName
          THEN NoRoundTrip
          ELSE [stage |-> "saving", name |-> activeWorkspace,
                store |-> folderStore, tree |-> explorer,
                left |-> leftCollapsed, right |-> rightCollapsed]
    /\ UNCHANGED extVars

NavPersisted ==
    \E t \in BOOLEAN :
        /\ NavigationLayoutSaved(t)
        /\ roundTrip' = RoundTripAfterSave
        /\ UNCHANGED extVars

NavPersistRejects ==
    /\ NavigationLayoutSaveRejects
    /\ roundTrip' = NoRoundTrip
    /\ UNCHANGED extVars

NavSaveResumed ==
    SaveResume /\ roundTrip' = RoundTripAfterSave /\ UNCHANGED extVars
NavSaveRejected ==
    SaveReadRejects /\ roundTrip' = NoRoundTrip /\ UNCHANGED extVars

PluginLoad ==
    \E name \in NavNames, t \in BOOLEAN :
        /\ Idle
        /\ PluginLoadWorkspace(name, t)
        /\ roundTrip' =
              IF /\ roundTrip.stage = "saved" /\ roundTrip.name = name
                 /\ last'.res = "pending"
              THEN [roundTrip EXCEPT !.stage = "loading"]
              ELSE NoRoundTrip
        /\ UNCHANGED extVars

NavFolderWritten == FsWriteDone /\ UNCHANGED <<roundTrip, extVars>>
NavFolderWriteFailed ==
    FsWriteRejects /\ roundTrip' = NoRoundTrip /\ UNCHANGED extVars

\* changeLayout ends; the engine leaves the sidebars as the layout has them
NavApplied ==
    \E ok \in BOOLEAN, took \in BOOLEAN, pl \in BOOLEAN, pr \in BOOLEAN :
        /\ LayoutApplied(ok, took, pl, pr)
        /\ roundTrip' =
              IF roundTrip.stage = "loading" /\ last'.res = "ok"
              THEN [roundTrip EXCEPT !.stage = "loaded"]
              ELSE NoRoundTrip
        /\ UNCHANGED extVars

PanelToggle ==
    SidebarToggled /\ roundTrip' = NoRoundTrip /\ UNCHANGED extVars

SettingsChange ==
    /\ \E key \in {"rememberNavigationLayout", "maintainLayoutAcrossWorkspaces"} :
          SettingToggled(key)
    /\ roundTrip' = NoRoundTrip
    /\ UNCHANGED extVars

NavFolderStore ==
    \E v \in StoreValues :
        FolderStoreChange(v) /\ roundTrip' = NoRoundTrip /\ UNCHANGED extVars
NavExplorer ==
    \E e \in ExplorerStates :
        ExplorerChange(e) /\ roundTrip' = NoRoundTrip /\ UNCHANGED extVars

NextNav ==
    \/ CreateGesture
    \/ SaveGesture
    \/ NavPersisted
    \/ NavPersistRejects
    \/ NavSaveResumed
    \/ NavSaveRejected
    \/ PluginLoad
    \/ NavFolderWritten
    \/ NavFolderWriteFailed
    \/ NavApplied
    \/ PanelToggle
    \/ SettingsChange
    \/ NavFolderStore
    \/ NavExplorer

SpecNav == Init /\ [][NextNav]_vars

-----------------------------------------------------------------------------
(* Persistence of the plugin data (src/unnamed/part_000)                    *)

\* what saveSettings hands to saveData: settings, store, navigation layouts
SettingsData ==
    [written |-> TRUE, hasStorage |-> TRUE, workspaces |-> workspaces,
     activeWorkspace |-> activeWorkspace,
     navigationLayouts |-> navigationLayouts, settings |-> settings]

\* what saveNavigationLayout hands to saveData once it has set the layout of
\* name: settings and navigation layouts, no workspaceStorage
NavigationData(name) ==
    [written |-> TRUE, hasStorage |-> FALSE, workspaces |-> EmptyMap,
     activeWorkspace |-> NullName,
     navigationLayouts |-> NavigationLayoutsSaved(name), settings |-> settings]

\* saveSettings(): one more persist is chained
Enqueued == [saveQueue EXCEPT !.pending = @ + 1]

RejectedAfterFailureNoCatch == TRUE
\* whether the chain is left rejected by a persist that failed: .catch logs
RejectedAfterFailure == FALSE

\* the next persist of the chain runs: it builds the data and calls saveData;
\* behind a rejected promise its callback is not run
QueueTaskStart ==
    /\ saveQueue.pending > 0
    /\ ~queueWrite.busy
    /\ saveQueue' = [saveQueue EXCEPT !.pending = @ - 1]
    /\ queueWrite' = IF saveQueue.rejected
                     THEN NoSaveData
                     ELSE [busy |-> TRUE, blob |-> SettingsData]
    /\ UNCHANGED disk

\* saveData of the chain resolves
QueueWriteDone ==
    /\ queueWrite.busy
    /\ disk' = queueWrite.blob
    /\ queueWrite' = NoSaveData
    /\ UNCHANGED saveQueue

\* saveData of the chain rejects
QueueWriteFails ==
    /\ queueWrite.busy
    /\ queueWrite' = NoSaveData
    /\ saveQueue' = [saveQueue EXCEPT !.rejected = RejectedAfterFailure]
    /\ UNCHANGED disk

\* handleRename of the modal, before its saveSettings
HandleRename(oldName, typed) ==
    IF IsBlank(typed) \/ oldName = Trim(typed) \/ HasWorkspace(Trim(typed))
    THEN UNCHANGED <<storeVars, engineLayout, folderStore, fsPending, explorer,
                     panelVars, pluginVars, isLoadingWorkspace, call, last>>
    ELSE /\ RenameWorkspace(oldName, Trim(typed))
         /\ navigationLayouts' =
               IF oldName \in DOMAIN navigationLayouts
               THEN [k \in (DOMAIN navigationLayouts \ {oldName}) \cup {Trim(typed)}
                       |-> IF k = Trim(typed) THEN navigationLayouts[oldName]
                           ELSE navigationLayouts[k]]
               ELSE navigationLayouts

\* doDelete of the modal, before its saveSettings
ModalDelete(name) ==
    /\ DeleteWorkspace(name)
    /\ navigationLayouts' =
          [k \in DOMAIN navigationLayouts \ {name} |-> navigationLayouts[k]]

-----------------------------------------------------------------------------
(* Auto-save on layout change (src/unnamed/part_000)                        *)

TimerIds == 1..MaxTimers
PendingIds == {t.id : t \in timers}
FreeIds == {i \in TimerIds : i \notin PendingIds /\ i # autoSaveTimeout}
\* the handle setTimeout returns: one that no pending timer and no kept
\* handle has
NewTimerId == CHOOSE i \in FreeIds : \A j \in FreeIds : i <= j

TimersAfterClearKept(ts, handle) == ts
\* clearTimeout(handle): the timer of that handle, if pending, is dropped
TimersAfterClear(ts, handle) == {t \in ts : t.id # handle}

\* handleAutoSaveOnLayoutChange(): the pending timer is cleared and a timer
\* for the active workspace is set; nothing during a load or with no workspace
HandleAutoSaveOnLayoutChange ==
    IF isLoadingWorkspace \/ activeWorkspace = NullName
    THEN UNCHANGED <<timers, autoSaveTimeout>>
    ELSE /\ timers' = TimersAfterClear(timers, autoSaveTimeout) \cup
                        {[id |-> NewTimerId, name |-> activeWorkspace,
                          left |-> QuietPeriod]}
         /\ autoSaveTimeout' = NewTimerId

\* the listener of 'layout-change', the layout having become l
LayoutChanged(l) ==
    /\ l # engineLayout
    /\ engineLayout' = l
    /\ IF settings.autoSaveOnLayoutChange
       THEN HandleAutoSaveOnLayoutChange
       ELSE UNCHANGED <<timers, autoSaveTimeout>>
    /\ UNCHANGED <<storeVars, folderStore, fsPending, explorer, panelVars,
                   pluginVars, isLoadingWorkspace, call, last, lifecycle, auto>>

\* 1000 ms pass
TimePasses ==
    /\ timers' = {[t EXCEPT !.left = IF @ > 0 THEN @ - 1 ELSE 0] : t \in timers}
    /\ UNCHANGED <<memVars, autoSaveTimeout, lifecycle, auto>>

\* the timer t is due and the host runs its callback, up to the await in
\* saveNavigationLayout
TimerFires(t) ==
    /\ t \in timers /\ t.left = 0
    /\ auto.pc = "idle"
    /\ timers' = timers \ {t}
    /\ navigationLayouts' = NavigationLayoutsSaved(t.name)
    /\ auto' = [IdleAuto EXCEPT !.pc = "nav_persist", !.name = t.name]
    /\ UNCHANGED <<storeVars, engineLayout, folderStore, fsPending, explorer,
                   panelVars, settings, isLoadingWorkspace, call, last,
                   autoSaveTimeout, lifecycle>>

\* saveNavigationLayout returns in the callback: saveWorkspace is called and
\* runs up to its await of loadLocalStorage, or to its end without capture
AutoSaveCall ==
    /\ auto.pc = "nav_persist"
    /\ IF settings.rememberNavigationLayout
       THEN /\ auto' = [auto EXCEPT !.pc = "save_read", !.layout = engineLayout,
                                    !.read = folderStore]
            /\ UNCHANGED <<storeVars, last>>
       ELSE /\ StoreRecord(auto.name, WorkspaceData(engineLayout, JUndefined))
            /\ last' = Report("save", "ok", "none", FALSE, FALSE)
            /\ auto' = IdleAuto
    /\ UNCHANGED <<engineLayout, folderStore, fsPending, explorer, panelVars,
                   pluginVars, isLoadingWorkspace, call, timers,
                   autoSaveTimeout, lifecycle>>

\* the read of localStorage resolves in the callback: the record is stored
AutoSaveResume ==
    /\ auto.pc = "save_read"
    /\ StoreRecord(auto.name,
                   WorkspaceData(auto.layout, CapturedFolderState(auto.read)))
    /\ last' = Report("save", "ok", "none", FALSE, FALSE)
    /\ auto' = IdleAuto
    /\ UNCHANGED <<engineLayout, folderStore, fsPending, explorer, panelVars,
                   pluginVars, isLoadingWorkspace, call, timers,
                   autoSaveTimeout, lifecycle>>

\* an await of the callback rejects: its try/catch logs 'Auto-save failed'
AutoSaveFails ==
    /\ auto.pc # "idle"
    /\ auto' = IdleAuto
    /\ UNCHANGED <<memVars, timers, autoSaveTimeout, lifecycle>>

\* onunload() up to its await of saveLog(); the host drops the listeners
UnloadBegins ==
    /\ lifecycle = "running"
    /\ lifecycle' = "unloading"
    /\ UNCHANGED <<memVars, timers, autoSaveTimeout, auto>>

\* saveLog() returns: the rest of onunload clears the timer
UnloadEnds ==
    /\ lifecycle = "unloading"
    /\ lifecycle' = "unloaded"
    /\ timers' = TimersAfterClear(timers, autoSaveTimeout)
    /\ autoSaveTimeout' = NullTimer
    /\ UNCHANGED <<memVars, auto>>

-----------------------------------------------------------------------------
(* Specification of the gestures with the persistence of the plugin data    *)

\* the names the user creates and loads, and the names typed in a rename
PNames == {"A"}
PRenameTyped == {"A", "B", " "}

\* what the handler of gesture g does once the call of the manager it awaits
\* has returned: createNewWorkspace and the plugin's loadWorkspace go on to
\* saveSettings unless the call raised; the save command does nothing more
GestureAfterCall(g) ==
    /\ gesture' = IF call'.pc = "idle" THEN "none" ELSE g
    /\ saveQueue' = IF /\ call'.pc = "idle"
                       /\ g \in {"create", "load"}
                       /\ last'.res \in {"ok", "notfound"}
                    THEN Enqueued
                    ELSE saveQueue

CanPersist == saveQueue.pending < MaxPending
PFrame == UNCHANGED <<roundTrip, timerVars, listVars, uiVars>>

\* the notice createNewWorkspace shows when it rejects what was typed
CreateNotice(typed) ==
    IF IsBlank(typed) THEN "Please enter a workspace name"
    ELSE IF HasWorkspace(Trim(typed)) THEN "already exists"
    ELSE "none"

PCreate ==
    \E typed \in PNames \cup {" "}, t \in BOOLEAN :
        /\ Idle /\ CanPersist
        /\ CreateNewWorkspace(typed, t)
        /\ IF IsBlank(typed) \/ HasWorkspace(Trim(typed))
           THEN UNCHANGED <<saveQueue, gesture>>
           ELSE GestureAfterCall("create")
        /\ watch' = [watch EXCEPT !.notice = [typed |-> typed,
                                              text |-> CreateNotice(typed),
                                              odd |-> ~@.odd]]
        /\ UNCHANGED <<disk, queueWrite, directWrite>>
        /\ PFrame

\* the save command: saveNavigationLayout calls saveData when the setting is on
PSaveCommand ==
    /\ Idle
    /\ SaveCurrentWorkspace
    /\ directWrite' =
          IF activeWorkspace # NullName /\ settings.rememberNavigationLayout
          THEN [busy |-> TRUE, blob |-> NavigationData(activeWorkspace)]
          ELSE directWrite
    /\ gesture' = IF activeWorkspace # NullName THEN "command" ELSE "none"
    /\ watch' = [watch EXCEPT !.commandUsed = @ \/ activeWorkspace # NullName]
    /\ UNCHANGED <<disk, saveQueue, queueWrite>>
    /\ PFrame

\* saveNavigationLayout returns, its saveData (if any) having resolved
PNavSaved ==
    \E t \in BOOLEAN :
        /\ NavigationLayoutSaved(t)
        /\ disk' = IF directWrite.busy THEN directWrite.blob ELSE disk
        /\ directWrite' = NoSaveData
        /\ GestureAfterCall(gesture)
        /\ UNCHANGED <<queueWrite, watch>>
        /\ PFrame

PNavRejects ==
    /\ directWrite.busy
    /\ NavigationLayoutSaveRejects
    /\ directWrite' = NoSaveData
    /\ gesture' = "none"
    /\ UNCHANGED <<disk, saveQueue, queueWrite, watch>>
    /\ PFrame

PSaveResumed ==
    /\ SaveResume
    /\ GestureAfterCall(gesture)
    /\ UNCHANGED <<disk, queueWrite, directWrite, watch>>
    /\ PFrame

PSaveRejected ==
    /\ SaveReadRejects
    /\ GestureAfterCall(gesture)
    /\ UNCHANGED <<disk, queueWrite, directWrite, watch>>
    /\ PFrame

PLoad ==
    \E name \in PNames, t \in BOOLEAN :
        /\ Idle /\ CanPersist
        /\ PluginLoadWorkspace(name, t)
        /\ GestureAfterCall("load")
        /\ UNCHANGED <<disk, queueWrite, directWrite, watch>>
        /\ PFrame

PFolderWritten == FsWriteDone /\ UNCHANGED <<persistVars, watch>> /\ PFrame

PFolderWriteFailed ==
    /\ FsWriteRejects
    /\ GestureAfterCall(gesture)
    /\ UNCHANGED <<disk, queueWrite, directWrite, watch>>
    /\ PFrame

PApplied ==
    \E ok \in BOOLEAN, took \in BOOLEAN :
        /\ LayoutApplied(ok, took, leftCollapsed, rightCollapsed)
        /\ GestureAfterCall(gesture)
        /\ UNCHANGED <<disk, queueWrite, directWrite, watch>>
        /\ PFrame

PRename ==
    \E o \in DOMAIN workspaces, typed \in PRenameTyped :
        /\ Idle /\ CanPersist
        /\ HandleRename(o, typed)
        /\ saveQueue' =
              IF IsBlank(typed) \/ o = Trim(typed) \/ HasWorkspace(Trim(typed))
              THEN saveQueue ELSE Enqueued
        /\ UNCHANGED <<disk, queueWrite, directWrite, gesture, watch>>
        /\ PFrame

PDelete ==
    \E name \in DOMAIN workspaces :
        /\ Idle /\ CanPersist
        /\ ModalDelete(name)
        /\ saveQueue' = Enqueued
        /\ UNCHANGED <<disk, queueWrite, directWrite, gesture, watch>>
        /\ PFrame

PQueueStart ==
    QueueTaskStart /\ UNCHANGED <<memVars, directWrite, gesture, watch>> /\ PFrame

PQueueDone ==
    /\ QueueWriteDone
    /\ watch' = [watch EXCEPT !.wroteAfter = @ \/ watch.persistFailed]
    /\ UNCHANGED <<memVars, directWrite, gesture>>
    /\ PFrame

PQueueFails ==
    /\ QueueWriteFails
    /\ watch' = [watch EXCEPT !.persistFailed = TRUE]
    /\ UNCHANGED <<memVars, directWrite, gesture>>
    /\ PFrame

NextPersist ==
    \/ PCreate
    \/ PSaveCommand
    \/ PNavSaved
    \/ PNavRejects
    \/ PSaveResumed
    \/ PSaveRejected
    \/ PLoad
    \/ PFolderWritten
    \/ PFolderWriteFailed
    \/ PApplied
    \/ PRename
    \/ PDelete
    \/ PQueueStart
    \/ PQueueDone
    \/ PQueueFails

SpecPersist == Init /\ [][NextPersist]_vars

-----------------------------------------------------------------------------
(* Specification of the auto-save: layout changes, time, the timer callback *)
(* and loads and the unload of the plugin running beside it. The persists   *)
(* of the callback and of the load are not observed here. A timer that is   *)
(* due runs before a later layout-change notification is delivered.         *)

AutoNames == {"A", "B"}

\* the plugin starts from persisted data that holds two workspaces, with the
\* auto-save on layout change switched on or off in it
InitAuto ==
    /\ workspaces = [n \in AutoNames |->
                        WorkspaceData(IF n = "A" THEN "L1" ELSE "L2", JNull)]
    /\ activeWorkspace = "A"
    /\ engineLayout = "L1"
    /\ folderStore = JNull
    /\ fsPending = NoWrite
    /\ explorer = [enabled |-> TRUE, expanded |-> {}]
    /\ leftCollapsed = FALSE
    /\ rightCollapsed = FALSE
    /\ navigationLayouts = EmptyMap
    /\ isLoadingWorkspace = FALSE
    /\ \E on \in BOOLEAN :
          settings = [DefaultSettings EXCEPT !.autoSaveOnLayoutChange = on]
    /\ call = IdleCall
    /\ last = Report("none", "none", "none", FALSE, FALSE)
    /\ roundTrip = NoRoundTrip
    /\ disk = [SettingsData EXCEPT !.settings = DefaultSettings]
    /\ saveQueue = EmptyQueue
    /\ queueWrite = NoSaveData
    /\ directWrite = NoSaveData
    /\ gesture = "none"
    /\ timers = {}
    /\ autoSaveTimeout = NullTimer
    /\ lifecycle = "running"
    /\ auto = IdleAuto
    /\ watch = NoWatch
    /\ keys = << >>
    /\ listed = << >>
    /\ sidebarView = DefaultView
    /\ dataWorkspaceName = NullName
    /\ aliased = NoAlias

AFrame == UNCHANGED <<roundTrip, persistVars, listVars, uiVars>>

\* a notification that sets a timer
Schedules ==
    /\ settings.autoSaveOnLayoutChange
    /\ ~isLoadingWorkspace /\ activeWorkspace # NullName

ANotify ==
    \E l \in Layouts :
        /\ lifecycle = "running"
        /\ \A t \in timers : t.left > 0
        /\ FreeIds # {}
        /\ LayoutChanged(l)
        /\ watch' =
              IF Schedules
              THEN [watch EXCEPT
                       !.saves = 0,
                       !.scheduled = TRUE,
                       !.burst = IF timers # {} /\ @ < 2 THEN @ + 1
                                 ELSE IF timers # {} THEN @ ELSE 1,
                       !.sinceNotify = 0,
                       !.stale = @ \ {autoSaveTimeout}]
              ELSE watch
        /\ AFrame

ATick ==
    /\ \/ \E t \in timers : t.left > 0
       \/ watch.sinceNotify < QuietPeriod
    /\ TimePasses
    /\ watch' = [watch EXCEPT
                    !.sinceNotify = IF @ < QuietPeriod THEN @ + 1 ELSE @]
    /\ AFrame

AFire ==
    \E t \in timers :
        /\ TimerFires(t)
        /\ watch' = [watch EXCEPT !.saves = IF @ < 2 THEN @ + 1 ELSE @,
                                  !.stale = @ \ {t.id}]
        /\ AFrame

ASaveCall == AutoSaveCall /\ UNCHANGED watch /\ AFrame
ASaveResume == AutoSaveResume /\ UNCHANGED watch /\ AFrame
ASaveFails == AutoSaveFails /\ UNCHANGED watch /\ AFrame

ALoad ==
    \E name \in AutoNames :
        /\ lifecycle = "running"
        /\ Idle
        /\ PluginLoadWorkspace(name, FALSE)
        /\ watch' = [watch EXCEPT
                        !.stale = @ \cup {t.id : t \in {u \in timers :
                                                         u.name # name}}]
        /\ UNCHANGED timerVars
        /\ AFrame

AFolderWritten == FsWriteDone /\ UNCHANGED <<timerVars, watch>> /\ AFrame

AApplied ==
    /\ LayoutApplied(TRUE, TRUE, leftCollapsed, rightCollapsed)
    /\ UNCHANGED <<timerVars, watch>>
    /\ AFrame

AUnloadBegins == UnloadBegins /\ UNCHANGED watch /\ AFrame
AUnloadEnds ==
    /\ UnloadEnds
    /\ watch' = [watch EXCEPT !.stale = @ \ {autoSaveTimeout}]
    /\ AFrame

NextAuto ==
    \/ ANotify
    \/ ATick
    \/ AFire
    \/ ASaveCall
    \/ ASaveResume
    \/ ASaveFails
    \/ ALoad
    \/ AFolderWritten
    \/ AApplied
    \/ AUnloadBegins
    \/ AUnloadEnds

SpecAuto == InitAuto /\ [][NextAuto]_vars

-----------------------------------------------------------------------------
(* Claims *)

\* a name is blank: empty or white space only
BlankName(name) == name \in BlankNames
\* name has a record in the store
HasRecord(name) == name \in DOMAIN workspaces

\* C1: within one load(name, restoreFolderState = true) of a workspace that has
\* a stored folder-expansion snapshot, the write of the snapshot to the
\* folder-state store has completed when changeLayout begins: no write is in
\* flight and the engine reads the snapshot.
C1_FolderWriteBeforeLayout ==
    (call.pc = "load_apply" /\ call.flag /\ Truthy(call.ws.folderExpandState))
        => (~fsPending.pending /\ call.saw = call.ws.folderExpandState)

C1_Witness ==
    /\ call.pc = "load_apply" /\ call.flag
    /\ call.ws.folderExpandState = JArray({"f1"})
    /\ folderStore = JArray({"f1"})
    /\ last.applied

\* C2: after rename(A, B) where A has a record, B has none and B is not blank:
\* has(A) is false, has(B) is true, get(B) is the record A had, every other
\* record is unchanged, and the active pointer is B if it was A and is
\* otherwise unchanged.
C2_RenameMoves ==
    [][\A a \in AllNames, b \in AllNames :
        (Idle /\ HasRecord(a) /\ ~HasRecord(b) /\ ~BlankName(b)
              /\ RenameWorkspace(a, b))
        => /\ ~HasWorkspace(a)'
           /\ HasWorkspace(b)'
           /\ b \in DOMAIN workspaces'
           /\ workspaces'[b] = workspaces[a]
           /\ \A k \in DOMAIN workspaces \ {a} :
                  k \in DOMAIN workspaces' /\ workspaces'[k] = workspaces[k]
           /\ DOMAIN workspaces' = (DOMAIN workspaces \ {a}) \cup {b}
           /\ activeWorkspace' = IF activeWorkspace = a THEN b ELSE activeWorkspace
      ]_vars

\* C2 for the names that Object.prototype does not define
C2_RenameMovesOrdinary ==
    [][\A a \in Names, b \in Names :
        (Idle /\ HasRecord(a) /\ ~HasRecord(b) /\ RenameWorkspace(a, b))
        => /\ ~HasWorkspace(a)'
           /\ HasWorkspace(b)'
           /\ workspaces'[b] = workspaces[a]
           /\ \A k \in DOMAIN workspaces \ {a} :
                  k \in DOMAIN workspaces' /\ workspaces'[k] = workspaces[k]
           /\ DOMAIN workspaces' = (DOMAIN workspaces \ {a}) \cup {b}
           /\ activeWorkspace' = IF activeWorkspace = a THEN b ELSE activeWorkspace
      ]_vars

\* C3: rename(oldName, newName) fails and leaves the store unchanged when
\* oldName has no record, when newName has a record (newName = oldName
\* included) or when newName is blank.
C3_RenameRejects ==
    [][\A o \in AllNames, n \in AllNames :
        (Idle /\ (~HasRecord(o) \/ HasRecord(n) \/ BlankName(n))
              /\ RenameWorkspace(o, n))
        => /\ UNCHANGED storeVars
           /\ last'.res \in {"notfound", "exists", "empty"}
           /\ last'.event = "none"
      ]_vars

\* C3 for the names that Object.prototype does not define
C3_RenameRejectsOrdinary ==
    [][\A o \in Names \cup BlankNames, n \in Names \cup BlankNames :
        (Idle /\ (~HasRecord(o) \/ HasRecord(n) \/ BlankName(n))
              /\ RenameWorkspace(o, n))
        => /\ UNCHANGED storeVars
           /\ last'.res \in {"notfound", "exists", "empty"}
           /\ last'.event = "none"
      ]_vars

\* C4: delete(name) of an existing workspace removes its record; the active
\* pointer becomes none if name was active and is unchanged otherwise.
C4_DeleteClearsActive ==
    [][\A n \in AllNames :
        (Idle /\ HasRecord(n) /\ DeleteWorkspace(n))
        => /\ ~HasRecord(n)'
           /\ (activeWorkspace = n => activeWorkspace' = NullName)
           /\ (activeWorkspace # n => activeWorkspace' = activeWorkspace)
      ]_vars

C4_Witness ==
    /\ last.op = "delete" /\ last.res = "ok"
    /\ activeWorkspace = NullName
    /\ DOMAIN workspaces # {}

\* C5: load(name) or delete(name) for a name that has no record reports
\* not-found and changes nothing: records, active pointer and folder-state
\* store are unchanged, changeLayout is not called and no event is emitted.
C5_NotFoundNoChange ==
    [][\A n \in AllNames :
        (Idle /\ ~HasRecord(n)
              /\ (DeleteWorkspace(n)
                  \/ \E f \in BOOLEAN, t \in BOOLEAN : LoadCall(n, f, t)))
        => /\ last'.res = "notfound"
           /\ last'.event = "none"
           /\ ~last'.applied
           /\ call'.pc = "idle"
           /\ UNCHANGED <<storeVars, folderStore, fsPending, engineLayout>>
      ]_vars

\* C5 for the names that Object.prototype does not define
C5_NotFoundNoChangeOrdinary ==
    [][\A n \in Names \cup BlankNames :
        (Idle /\ ~HasRecord(n)
              /\ (DeleteWorkspace(n)
                  \/ \E f \in BOOLEAN, t \in BOOLEAN : LoadCall(n, f, t)))
        => /\ last'.res = "notfound"
           /\ last'.event = "none"
           /\ ~last'.applied
           /\ call'.pc = "idle"
           /\ UNCHANGED <<storeVars, folderStore, fsPending, engineLayout>>
      ]_vars

\* the outcome of a successful save of name: the record of name is created or
\* replaced by data, every other record is kept, name becomes active
SaveOutcome(name, data) ==
    /\ workspaces' = Put(workspaces, name, data)
    /\ activeWorkspace' = name
    /\ last'.op = "save" /\ last'.res = "ok"

\* C6 as stated: a successful save(name, captureFolderState) with a non-blank
\* name creates or replaces the record of name, storing the layout the engine
\* reports when save is called and, when captureFolderState is true, the
\* content the folder-state store has at that time, and makes name active.
C6_SaveStoresStoreContent ==
    [][/\ \A n \in AllNames :
            (Idle /\ ~BlankName(n) /\ SaveCall(n, FALSE, FALSE))
            => SaveOutcome(n, WorkspaceData(engineLayout, JUndefined))
       /\ \A n \in AllNames :
            (Idle /\ ~BlankName(n) /\ SaveCall(n, TRUE, FALSE))
            => call'.ws = WorkspaceData(engineLayout, folderStore)
       /\ SaveResume
            => SaveOutcome(call.name,
                   WorkspaceData(call.ws.layout, call.ws.folderExpandState))
      ]_vars

\* C6 amended: as C6, except that when captureFolderState is true and the
\* folder-state store is empty (null) while the file explorer tree has expanded
\* folders, the record stores the list of those folders instead.
C6_SaveStoresCapture ==
    [][/\ \A n \in AllNames :
            (Idle /\ ~BlankName(n) /\ SaveCall(n, FALSE, FALSE))
            => SaveOutcome(n, WorkspaceData(engineLayout, JUndefined))
       /\ \A n \in AllNames :
            (Idle /\ ~BlankName(n) /\ SaveCall(n, TRUE, FALSE))
            => call'.ws = WorkspaceData(engineLayout, folderStore)
       /\ SaveResume
            => SaveOutcome(call.name,
                   WorkspaceData(call.ws.layout,
                       IF /\ call.ws.folderExpandState = JNull
                          /\ explorer.enabled
                          /\ explorer.expanded # {}
                       THEN JArray(explorer.expanded)
                       ELSE call.ws.folderExpandState))
      ]_vars

C6_Witness ==
    /\ last.op = "save" /\ last.res = "ok"
    /\ activeWorkspace = "B"
    /\ DOMAIN workspaces = {"A", "B"}
    /\ workspaces["B"] = WorkspaceData("L2", JArray({"f1"}))
    /\ folderStore = JNull
    /\ explorer.expanded = {"f1"}

\* C7: save(name) with an empty or white-space-only name reports an error
\* without raising and changes nothing.
C7_SaveBlankRejected ==
    [][\A n \in BlankNames, f \in BOOLEAN, t \in BOOLEAN :
        (Idle /\ SaveCall(n, f, t))
        => /\ UNCHANGED storeVars
           /\ last'.res = "empty"
           /\ call'.pc = "idle"
      ]_vars

C7_Witness ==
    /\ last.op = "save" /\ last.res = "empty"
    /\ DOMAIN workspaces # {}
    /\ "" \notin DOMAIN workspaces /\ " " \notin DOMAIN workspaces

\* C8: when changeLayout raises during load(name) of an existing workspace the
\* error is swallowed: the load sets the active workspace to name, emits the
\* workspace-open event and returns without raising.
C8_LayoutErrorSwallowed ==
    [][\A took \in BOOLEAN :
        (call.pc = "load_apply" /\ HasRecord(call.name)
              /\ LayoutApplied(FALSE, took, leftCollapsed, rightCollapsed))
        => /\ activeWorkspace' = call.name
           /\ last'.op = "load" /\ last'.res = "ok"
           /\ last'.event = "workspace-open"
           /\ call'.pc = "idle"
      ]_vars

C8_Witness ==
    /\ last.op = "load" /\ last.res = "ok" /\ last.swallowed
    /\ last.event = "workspace-open"
    /\ activeWorkspace \in DOMAIN workspaces

\* C9: load(name, restoreFolderState = true) of a workspace whose record holds
\* no folder-expansion snapshot clears the folder-state store before the
\* layout is applied: when changeLayout begins no write is in flight and the
\* engine reads an empty (null) folder state.
C9_NoSnapshotClearsStore ==
    (call.pc = "load_apply" /\ call.flag /\ ~Truthy(call.ws.folderExpandState))
        => (~fsPending.pending /\ call.saw = JNull)

C9_Witness ==
    /\ call.pc = "load_apply" /\ call.flag
    /\ call.name \in DOMAIN workspaces
    /\ call.ws.folderExpandState = JUndefined
    /\ folderStore = JNull
    /\ \E n \in DOMAIN workspaces : Truthy(workspaces[n].folderExpandState)

\* a save of W with folder capture has been followed, with nothing in between,
\* by a completed load of W with folder restore, per-workspace restoration on
RoundTripDone ==
    /\ roundTrip.stage = "loaded"
    /\ RestoreEnabled

\* C10 as stated: after saving W with folder capture and immediately loading W
\* with folder restore, per-workspace restoration enabled, the folder-state
\* store equals its content F at the save and both sidebars are open or closed
\* as they were at the save.
C10_RoundTripRestoresStore ==
    RoundTripDone
        => /\ folderStore = roundTrip.store
           /\ leftCollapsed = roundTrip.left
           /\ rightCollapsed = roundTrip.right

\* C10 amended: as C10, except that when F is empty (null) and the file
\* explorer tree had expanded folders at the save, the folder-state store ends
\* as the list of those folders.
C10_RoundTripRestoresCapture ==
    RoundTripDone
        => /\ folderStore =
                 IF /\ roundTrip.store = JNull
                    /\ roundTrip.tree.enabled
                    /\ roundTrip.tree.expanded # {}
                 THEN JArray(roundTrip.tree.expanded)
                 ELSE roundTrip.store
           /\ leftCollapsed = roundTrip.left
           /\ rightCollapsed = roundTrip.right

C10_Witness ==
    /\ RoundTripDone
    /\ roundTrip.store = JArray({"f1"})
    /\ folderStore = JArray({"f1"})
    /\ roundTrip.left /\ leftCollapsed
    /\ ~roundTrip.right /\ ~rightCollapsed
    /\ last.swallowed

\* every gesture has returned and every persist it asked for has been written
GesturesComplete ==
    /\ call.pc = "idle" /\ gesture = "none"
    /\ saveQueue.pending = 0
    /\ ~queueWrite.busy /\ ~directWrite.busy

\* the persisted data holds the store as it is in memory
StorePersisted ==
    /\ disk.hasStorage
    /\ disk.workspaces = workspaces
    /\ disk.activeWorkspace = activeWorkspace

\* C11: once the gestures that save, create, load, rename or delete a
\* workspace (the 'Save current workspace' command included) have completed,
\* no write having failed, the persisted data contains a workspaceStorage whose
\* records and active pointer equal the store in memory.
C11_StorePersistedAfterGesture ==
    (GesturesComplete /\ disk.written /\ ~watch.persistFailed) => StorePersisted

\* C11 without the 'Save current workspace' command
C11_StorePersistedWithoutCommand ==
    (GesturesComplete /\ disk.written /\ ~watch.persistFailed
        /\ ~watch.commandUsed) => StorePersisted

\* C12: the writes to the persisted data never overlap, and once all the
\* persists requested have finished, none having failed, the persisted data
\* equals the state in memory.
C12_PersistsSerialized ==
    /\ ~(queueWrite.busy /\ directWrite.busy)
    /\ (GesturesComplete /\ disk.written /\ ~watch.persistFailed)
          => disk = SettingsData

\* C13: a persist of the chain that fails leaves the chain resolved (the
\* failure is logged, not propagated), and every persist that runs afterwards
\* performs its write.
C13_FailedPersistNotPropagated ==
    [][/\ QueueWriteFails => ~saveQueue'.rejected
       /\ QueueTaskStart => (queueWrite'.busy /\ queueWrite'.blob = SettingsData)
      ]_vars

C13_Witness ==
    /\ watch.persistFailed /\ watch.wroteAfter
    /\ GesturesComplete
    /\ disk = SettingsData
    /\ DOMAIN workspaces = {"B"}

\* C14: with the auto-save on, a workspace active and no load in progress,
\* the notifications of a burst (each arriving while the timer of the one
\* before is pending) lead to exactly one auto-save: at most one timer is
\* pending at any time, each notification that sets a timer leaves exactly one
\* save to come or begun, and a timer runs only when the quiet period has
\* passed since the last notification, whose timer it is.
C14_AutoSaveDebounced ==
    /\ [](Cardinality(timers) <= 1)
    /\ []((watch.scheduled /\ lifecycle # "unloaded")
            => watch.saves + Cardinality(timers) = 1)
    /\ [][\A t \in timers :
            TimerFires(t) => /\ watch.sinceNotify >= QuietPeriod
                             /\ t.id = autoSaveTimeout
         ]_vars

C14_Witness ==
    /\ watch.burst = 2 /\ watch.saves = 1
    /\ timers = {} /\ auto.pc = "idle"
    /\ lifecycle = "running"
    /\ last.op = "save" /\ last.res = "ok"
    /\ workspaces["A"].layout = "L2"

\* C15: once the unload of the plugin has begun, no timer set before it runs
\* its auto-save.
C15_NoAutoSaveAfterUnload ==
    [][\A t \in timers : TimerFires(t) => lifecycle = "running"]_vars

\* C15 for the time after onunload has returned
C15_NoAutoSaveOnceUnloaded ==
    [][\A t \in timers : TimerFires(t) => lifecycle # "unloaded"]_vars

\* C16: a timer that was pending for the outgoing workspace when a load of
\* another workspace started does not run its auto-save afterwards.
C16_SwitchSupersedesTimer ==
    [][\A t \in timers : TimerFires(t) => t.id \notin watch.stale]_vars

\* a load is outstanding / a save by the timer callback is outstanding
LoadOutstanding == call.pc \in {"load_write", "load_apply"}
AutoSaveOutstanding == auto.pc = "save_read"

\* C17: the store is in one operation at a time: no save begins or is
\* outstanding while a load is outstanding, and no load while a save is.
C17_OneOperationAtATime == ~(LoadOutstanding /\ AutoSaveOutstanding)

-----------------------------------------------------------------------------
(* Listing: WorkspaceManager.getWorkspaceNames and the switcher's getItems *)

\* the listing model stores at most MaxListed names
MaxListed == 3

\* names of the listing model; none is a canonical array index, so Object.keys
\* reports them in the order of their insertion
ListNames == {"Alpha", "Notes 1", "Notes 2", "Notes 10", "notes 2", "Notes2"}

\* the UTF-16 code units of a name
Chars(name) ==
    CASE name = "Alpha"    -> <<"A", "l", "p", "h", "a">>
      [] name = "Notes 1"  -> <<"N", "o", "t", "e", "s", " ", "1">>
      [] name = "Notes 2"  -> <<"N", "o", "t", "e", "s", " ", "2">>
      [] name = "Notes 10" -> <<"N", "o", "t", "e", "s", " ", "1", "0">>
      [] name = "notes 2"  -> <<"n", "o", "t", "e", "s", " ", "2">>
      [] name = "Notes2"   -> <<"N", "o", "t", "e", "s", "2">>

Range(s) == {s[i] : i \in DOMAIN s}

Digits == {"0", "1", "2"}
DigitValue(ch) == CASE ch = "0" -> 0 [] ch = "1" -> 1 [] ch = "2" -> 2

\* the lower-case form of a character
LowerCase(ch) ==
    CASE ch = "A" -> "a"
      [] ch = "N" -> "n"
      [] OTHER -> ch

\* the letters in collation order, the lower-case form before the upper-case
LetterOrder == <<"a", "A", "e", "h", "l", "n", "N", "o", "p", "s", "t">>
PositionIn(s, x) == CHOOSE i \in DOMAIN s : s[i] = x

WeightCaseSensitive(ch) == PositionIn(LetterOrder, ch)
\* sensitivity: 'base': the primary weight of a letter, which its case does
\* not change
Weight(ch) == PositionIn(LetterOrder, LowerCase(ch))

\* the digits a sequence of characters begins with
RECURSIVE LeadingDigits(_)
LeadingDigits(s) ==
    IF s = << >> \/ Head(s) \notin Digits
    THEN << >>
    ELSE <<Head(s)>> \o LeadingDigits(Tail(s))

DigitRunOneDigit(s) == <<Head(s)>>
\* numeric: true: a maximal run of digits is one collation element
DigitRun(s) == LeadingDigits(s)

\* the number a run of decimal digits denotes
RECURSIVE NumericValue(_)
NumericValue(run) ==
    IF run = << >>
    THEN 0
    ELSE NumericValue(SubSeq(run, 1, Len(run) - 1)) * 10
            + DigitValue(run[Len(run)])

\* collation elements of a name at primary strength: white space sorts before
\* numbers and numbers before letters
RECURSIVE CollationElements(_)
CollationElements(s) ==
    IF s = << >>
    THEN << >>
    ELSE IF Head(s) \in Digits
    THEN LET run == DigitRun(s)
         IN  <<[class |-> 1, weight |-> NumericValue(run)]>>
                \o CollationElements(SubSeq(s, Len(run) + 1, Len(s)))
    ELSE IF Head(s) = " "
    THEN <<[class |-> 0, weight |-> 0]>> \o CollationElements(Tail(s))
    ELSE <<[class |-> 2, weight |-> Weight(Head(s))]>>
            \o CollationElements(Tail(s))

Sign(x, y) == IF x < y THEN -1 ELSE IF x > y THEN 1 ELSE 0

CompareElement(x, y) ==
    IF x.class # y.class THEN Sign(x.class, y.class) ELSE Sign(x.weight, y.weight)

RECURSIVE CompareElements(_, _)
CompareElements(xs, ys) ==
    IF xs = << >> \/ ys = << >>
    THEN Sign(Len(xs), Len(ys))
    ELSE IF CompareElement(Head(xs), Head(ys)) # 0
    THEN CompareElement(Head(xs), Head(ys))
    ELSE CompareElements(Tail(xs), Tail(ys))

\* a.localeCompare(b, undefined, { numeric: true, sensitivity: 'base' })
LocaleCompare(a, b) ==
    CompareElements(CollationElements(Chars(a)), CollationElements(Chars(b)))

\* Array.prototype.sort with this comparator: a stable sort
SortedInsert(sorted, x) ==
    LET k == Cardinality({i \in DOMAIN sorted : LocaleCompare(sorted[i], x) <= 0})
    IN  SubSeq(sorted, 1, k) \o <<x>> \o SubSeq(sorted, k + 1, Len(sorted))

RECURSIVE NaturalSort(_)
NaturalSort(s) ==
    IF s = << >>
    THEN << >>
    ELSE SortedInsert(NaturalSort(SubSeq(s, 1, Len(s) - 1)), s[Len(s)])

\* Object.keys(this.storage.workspaces) once the store has become ws: the keys
\* that remain, in their order, and then the key that was added
KeysAfter(ks, ws) ==
    LET kept  == SelectSeq(ks, LAMBDA k : k \in DOMAIN ws)
        added == DOMAIN ws \ Range(ks)
    IN  IF added = {} THEN kept ELSE Append(kept, CHOOSE n \in added : TRUE)

\* WorkspaceManager.getWorkspaceNames
GetWorkspaceNames == NaturalSort(keys)

\* WorkspaceSwitcherModal.getItems
GetItems == GetWorkspaceNames

\* the switcher asks for its items
ListRequested ==
    /\ listed' = GetItems
    /\ UNCHANGED <<keys, memVars>>

\* the switcher is closed: no list of items is on display
SwitcherClosed == listed = << >>

\* the switcher closes (this.close()): its items are dropped
SwitcherCloses ==
    /\ listed # << >>
    /\ listed' = << >>
    /\ UNCHANGED <<keys, memVars>>

\* the store and the settings change while the switcher is closed
LSave ==
    \E name \in ListNames :
        /\ Idle /\ SwitcherClosed
        /\ name \in DOMAIN workspaces \/ Len(keys) < MaxListed
        /\ SaveCall(name, FALSE, FALSE)
        /\ keys' = KeysAfter(keys, workspaces')
        /\ UNCHANGED <<listed, roundTrip, persistVars, timerVars, watch, uiVars>>

LDelete ==
    \E name \in DOMAIN workspaces :
        /\ Idle /\ SwitcherClosed
        /\ DeleteWorkspace(name)
        /\ keys' = KeysAfter(keys, workspaces')
        /\ UNCHANGED <<listed, navigationLayouts, roundTrip, persistVars,
                       timerVars, watch, uiVars>>

LSortToggled ==
    /\ SwitcherClosed
    /\ SettingToggled("sortWorkspacesAlphabetically")
    /\ UNCHANGED <<listVars, roundTrip, persistVars, timerVars, watch, uiVars>>

LList ==
    /\ ListRequested
    /\ UNCHANGED <<roundTrip, persistVars, timerVars, watch, uiVars>>

LClosed ==
    /\ SwitcherCloses
    /\ UNCHANGED <<roundTrip, persistVars, timerVars, watch, uiVars>>

NextList ==
    \/ LSave
    \/ LDelete
    \/ LSortToggled
    \/ LList
    \/ LClosed

SpecList == Init /\ [][NextList]_vars

-----------------------------------------------------------------------------
(* Claims about the listing *)

NaturallyOrdered(s) ==
    \A i, j \in DOMAIN s : i < j => LocaleCompare(s[i], s[j]) <= 0

\* C18: with alphabetical sorting enabled a listing holds every stored name
\* exactly once, in natural order, whatever the order of creation: the names
\* "Notes 2", "Notes 10", "Notes 1" are listed as "Notes 1", "Notes 2",
\* "Notes 10".
C18_ListNaturalOrder ==
    [][(ListRequested /\ settings.sortWorkspacesAlphabetically)
          => /\ Range(listed') = DOMAIN workspaces
             /\ Len(listed') = Cardinality(DOMAIN workspaces)
             /\ NaturallyOrdered(listed')
             /\ (DOMAIN workspaces = {"Notes 2", "Notes 10", "Notes 1"}
                   => listed' = <<"Notes 1", "Notes 2", "Notes 10">>)
      ]_vars

\* the three names were created in the order "Notes 2", "Notes 10", "Notes 1"
\* and then listed
C18_Witness ==
    /\ settings.sortWorkspacesAlphabetically
    /\ keys = <<"Notes 2", "Notes 10", "Notes 1">>
    /\ listed = <<"Notes 1", "Notes 2", "Notes 10">>

\* C19: with alphabetical sorting disabled a listing holds the stored names in
\* the order of their insertion.
C19_UnsortedInInsertionOrder ==
    [][(ListRequested /\ ~settings.sortWorkspacesAlphabetically)
          => listed' = keys
      ]_vars

\* a and b are the same characters around one embedded integer each, the
\* integers being a[i..ja] and b[i..jb]
SplitAtInteger(a, b, i, ja, jb) ==
    /\ \A k \in i..ja : a[k] \in Digits
    /\ \A k \in i..jb : b[k] \in Digits
    /\ SubSeq(a, 1, i - 1) = SubSeq(b, 1, i - 1)
    /\ SubSeq(a, ja + 1, Len(a)) = SubSeq(b, jb + 1, Len(b))
    /\ i = 1 \/ a[i - 1] \notin Digits
    /\ ja = Len(a) \/ a[ja + 1] \notin Digits

DiffersOnlyInCase(a, b) ==
    /\ Len(a) = Len(b)
    /\ \A k \in DOMAIN a : LowerCase(a[k]) = LowerCase(b[k])

\* C20: the comparator of the listing orders two names that differ only in an
\* embedded integer by the value of the integer, takes names that differ only
\* in letter case as equal, and is a total order: any two names are compared,
\* the comparison is transitive, and antisymmetric up to names that compare
\* equal.
C20_ComparatorTotalOrder ==
    \A a, b \in Range(keys) :
        LET ca == Chars(a)
            cb == Chars(b)
            ab == LocaleCompare(a, b)
        IN  /\ \A i \in DOMAIN ca :
                 (ca[i] \in Digits /\ i \in DOMAIN cb /\ cb[i] \in Digits)
                    => \A ja \in i..Len(ca), jb \in i..Len(cb) :
                          SplitAtInteger(ca, cb, i, ja, jb)
                             => ab = Sign(NumericValue(SubSeq(ca, i, ja)),
                                          NumericValue(SubSeq(cb, i, jb)))
            /\ DiffersOnlyInCase(ca, cb) => ab = 0
            /\ ab \in {-1, 0, 1}
            /\ ab = 0 - LocaleCompare(b, a)
            /\ ab <= 0 => \A c \in Range(keys) :
                             LocaleCompare(b, c) <= 0 => LocaleCompare(a, c) <= 0

\* names that differ in an integer and names that differ in case were stored
\* and listed: the names of equal rank keep the order of their insertion
C20_Witness ==
    /\ keys = <<"Notes 10", "notes 2", "Notes 2">>
    /\ listed = <<"notes 2", "Notes 2", "Notes 10">>

-----------------------------------------------------------------------------
(* Claims about the restoration of the sidebars *)

\* the user has switched per-workspace restoration off
RestorationOff ==
    ~settings.rememberNavigationLayout \/ settings.maintainLayoutAcrossWorkspaces

\* C21: with "remember navigation layout" off or "maintain layout across
\* workspaces" on, a load that begins issues no write to the folder-state
\* store, and a load that ends leaves both sidebars as the layout engine left
\* them; a load of a workspace without a sidebar snapshot leaves both sidebars
\* as the layout engine left them.
C21_RestorationOffNoOp ==
    [][/\ \A name \in NavNames, t \in BOOLEAN :
             (PluginLoadWorkspace(name, t) /\ RestorationOff)
                => (fsPending' = fsPending /\ folderStore' = folderStore)
       /\ \A ok, took, pl, pr \in BOOLEAN :
             (/\ LayoutApplied(ok, took, pl, pr)
              /\ RestorationOff \/ call.name \notin DOMAIN navigationLayouts)
                => (leftCollapsed' = pl /\ rightCollapsed' = pr)
      ]_vars

\* a load has ended with restoration off, the snapshot of the workspace saying
\* open for the left sidebar, which is collapsed, and closed for the right
\* sidebar, which is open
C21_Witness ==
    /\ last.op = "load" /\ last.res = "ok"
    /\ RestorationOff
    /\ activeWorkspace \in DOMAIN navigationLayouts
    /\ navigationLayouts[activeWorkspace].leftSidebarOpen /\ leftCollapsed
    /\ ~navigationLayouts[activeWorkspace].rightSidebarOpen /\ ~rightCollapsed

\* C22: with per-workspace restoration on and a snapshot S of the workspace,
\* the restore of a load treats each sidebar by itself: it changes a sidebar
\* exactly when the sidebar is not in the state S has for it, afterwards each
\* sidebar is open or closed as S says, and a second restore with S changes
\* nothing.
C22_RestoreEachPanel ==
    [][\A ok, took, pl, pr \in BOOLEAN :
          (/\ LayoutApplied(ok, took, pl, pr)
           /\ ~RestorationOff
           /\ call.name \in DOMAIN navigationLayouts)
             => LET S == navigationLayouts[call.name]
                IN  /\ leftCollapsed' = ~S.leftSidebarOpen
                    /\ rightCollapsed' = ~S.rightSidebarOpen
                    /\ (leftCollapsed' # pl) <=> (pl = S.leftSidebarOpen)
                    /\ (rightCollapsed' # pr) <=> (pr = S.rightSidebarOpen)
                    /\ RestoredCollapsed(call.name, "leftSidebarOpen",
                                         leftCollapsed') = leftCollapsed'
                    /\ RestoredCollapsed(call.name, "rightSidebarOpen",
                                         rightCollapsed') = rightCollapsed'
      ]_vars

\* a load has ended with restoration on and a snapshot that has the left
\* sidebar open and the right one closed, and the sidebars are so
C22_Witness ==
    /\ last.op = "load" /\ last.res = "ok"
    /\ ~RestorationOff
    /\ activeWorkspace \in DOMAIN navigationLayouts
    /\ navigationLayouts[activeWorkspace].leftSidebarOpen /\ ~leftCollapsed
    /\ ~navigationLayouts[activeWorkspace].rightSidebarOpen /\ rightCollapsed

-----------------------------------------------------------------------------
(* The sidebars' tabs and widths and the body attribute (src/unnamed/part_000) *)

ViewNames == {"A", "B"}

\* the tabs and widths the sidebars take in this specification
Views ==
    {[leftSidebarTab |-> lt, rightSidebarTab |-> "outline",
      leftSidebarWidth |-> 300, rightSidebarWidth |-> rw] :
        lt \in {"file-explorer", "search"}, rw \in {300, 250}}

\* the user activates another tab of a sidebar or drags its edge
SidebarViewChanged(v) ==
    /\ v # sidebarView
    /\ sidebarView' = v
    /\ UNCHANGED memVars

\* restoreNavigationLayout(name) on the tabs and widths the engine left: it
\* reads leftSidebarOpen and rightSidebarOpen of the snapshot and nothing else
RestoredView(name, view) == view

\* updateWorkspaceDataAttribute(name)
DataAttribute(name) == name

\* onload with the stored workspace A, which is active: onLayoutReady sets the
\* body attribute to the active workspace
InitView ==
    /\ workspaces = [n \in {"A"} |-> WorkspaceData("L1", JNull)]
    /\ activeWorkspace = "A"
    /\ engineLayout = "L1"
    /\ folderStore = JNull
    /\ fsPending = NoWrite
    /\ explorer = [enabled |-> TRUE, expanded |-> {}]
    /\ leftCollapsed = FALSE
    /\ rightCollapsed = FALSE
    /\ navigationLayouts = EmptyMap
    /\ isLoadingWorkspace = FALSE
    /\ settings = DefaultSettings
    /\ call = IdleCall
    /\ last = Report("none", "none", "none", FALSE, FALSE)
    /\ roundTrip = NoRoundTrip
    /\ disk = NoData
    /\ saveQueue = EmptyQueue
    /\ queueWrite = NoSaveData
    /\ directWrite = NoSaveData
    /\ gesture = "none"
    /\ timers = {}
    /\ autoSaveTimeout = NullTimer
    /\ lifecycle = "running"
    /\ auto = IdleAuto
    /\ watch = NoWatch
    /\ keys = << >>
    /\ listed = << >>
    /\ sidebarView = DefaultView
    /\ dataWorkspaceName = DataAttribute("A")
    /\ aliased = NoAlias

VFrame == UNCHANGED <<roundTrip, persistVars, timerVars, listVars, watch>>

VSave == Idle /\ SaveCurrentWorkspace /\ VFrame /\ UNCHANGED uiVars
VNavSaved == NavigationLayoutSaved(FALSE) /\ VFrame /\ UNCHANGED uiVars
VSaveResumed == SaveResume /\ VFrame /\ UNCHANGED uiVars
VLoad ==
    \E name \in DOMAIN workspaces :
        Idle /\ PluginLoadWorkspace(name, FALSE) /\ VFrame /\ UNCHANGED uiVars
VFolderWritten == FsWriteDone /\ VFrame /\ UNCHANGED uiVars

\* changeLayout ends: an engine that installed the layout leaves the sidebars
\* with the tabs and widths of its choice, one that did not leaves them alone;
\* then the listener of 'workspace-open' (afterWorkspaceLoad)
VApplied ==
    \E ok \in BOOLEAN, took \in BOOLEAN, pl \in BOOLEAN, pr \in BOOLEAN,
       view \in Views :
        /\ took \/ view = sidebarView
        /\ LayoutApplied(ok, took, pl, pr)
        /\ sidebarView' = RestoredView(call.name, view)
        /\ dataWorkspaceName' = IF last'.res = "ok"
                                THEN DataAttribute(call.name)
                                ELSE dataWorkspaceName
        /\ UNCHANGED aliased
        /\ VFrame

\* the rename of the switcher (handleRename) and of the editor
VRename ==
    \E o \in DOMAIN workspaces, typed \in ViewNames :
        Idle /\ HandleRename(o, typed) /\ VFrame /\ UNCHANGED uiVars

VPanel == SidebarToggled /\ VFrame /\ UNCHANGED uiVars
VView ==
    \E v \in Views :
        SidebarViewChanged(v) /\ VFrame
        /\ UNCHANGED <<dataWorkspaceName, aliased>>

NextView ==
    \/ VSave
    \/ VNavSaved
    \/ VSaveResumed
    \/ VLoad
    \/ VFolderWritten
    \/ VApplied
    \/ VRename
    \/ VPanel
    \/ VView

SpecView == InitView /\ [][NextView]_vars

RenameGestureSucceeds(o, typed) ==
    /\ ~(IsBlank(typed) \/ o = Trim(typed) \/ HasWorkspace(Trim(typed)))
    /\ HandleRename(o, typed)
    /\ last'.op = "rename" /\ last'.res = "ok"

\* C28: after a successful rename gesture of A to B the navigation-layout
\* cache has no entry under A and under B the entry A had, and if A was the
\* active workspace the body attribute names B.
C28_AuxiliaryDataFollowsRename ==
    [][\A o \in ViewNames, typed \in ViewNames :
          RenameGestureSucceeds(o, typed)
             => /\ o \notin DOMAIN navigationLayouts'
                /\ o \in DOMAIN navigationLayouts
                     => /\ typed \in DOMAIN navigationLayouts'
                        /\ navigationLayouts'[typed] = navigationLayouts[o]
                /\ activeWorkspace = o => dataWorkspaceName' = typed
      ]_vars

\* the part of C28 that is about the navigation-layout cache
C28_NavigationLayoutFollowsRename ==
    [][\A o \in ViewNames, typed \in ViewNames :
          RenameGestureSucceeds(o, typed)
             => /\ o \notin DOMAIN navigationLayouts'
                /\ o \in DOMAIN navigationLayouts
                     => /\ typed \in DOMAIN navigationLayouts'
                        /\ navigationLayouts'[typed] = navigationLayouts[o]
      ]_vars

\* C24: within a load the restore of the sidebars comes after the layout-apply:
\* the steps of the load before changeLayout has returned, or has failed with
\* the failure swallowed, leave the sidebars alone, and the restore acts on the
\* sidebars as changeLayout left them, so that what it sets is not undone by
\* the engine.
C24_RestoreAfterLayoutApply ==
    [][/\ \A name \in NavNames, t \in BOOLEAN :
             PluginLoadWorkspace(name, t) => UNCHANGED panelVars
       /\ (call.pc = "load_write" /\ (FsWriteDone \/ FsWriteRejects))
             => UNCHANGED panelVars
       /\ \A ok, took, pl, pr \in BOOLEAN :
             (/\ LayoutApplied(ok, took, pl, pr)
              /\ ~RestorationOff
              /\ call.name \in DOMAIN navigationLayouts)
                => /\ last'.applied
                   /\ pl = navigationLayouts[call.name].leftSidebarOpen
                         => leftCollapsed' = ~pl
                   /\ pr = navigationLayouts[call.name].rightSidebarOpen
                         => rightCollapsed' = ~pr
      ]_vars

\* a load whose changeLayout failed has ended, the failure swallowed, and the
\* sidebars are as the snapshot has them
C24_Witness ==
    /\ last.op = "load" /\ last.res = "ok" /\ last.applied /\ last.swallowed
    /\ ~RestorationOff
    /\ activeWorkspace \in DOMAIN navigationLayouts
    /\ leftCollapsed = ~navigationLayouts[activeWorkspace].leftSidebarOpen
    /\ rightCollapsed = ~navigationLayouts[activeWorkspace].rightSidebarOpen
    /\ ~isLoadingWorkspace

\* the step in which the save gesture on the existing workspace name stores
\* the record
SaveStoresRecord(name) ==
    /\ call.pc \in {"nav_persist", "save_read"} /\ call.name = name
    /\ name \in DOMAIN workspaces
    /\ last'.op = "save" /\ last'.res = "ok"
    /\ \/ SaveResume
       \/ \E t \in BOOLEAN : NavigationLayoutSaved(t)

\* C29: a save of an existing workspace replaces its layout by the layout the
\* save captured, and replaces its stored navigation state (sidebar snapshot
\* and folder-expansion snapshot) only when navigation memory is enabled: a
\* save made with navigation memory disabled leaves both as they were.
C29_SaveKeepsNavigationState ==
    [][\A name \in NavNames :
          SaveStoresRecord(name)
             => /\ workspaces'[name].layout =
                      IF call.pc = "save_read" THEN call.ws.layout
                      ELSE engineLayout
                /\ ~settings.rememberNavigationLayout
                      => /\ workspaces'[name].folderExpandState =
                               workspaces[name].folderExpandState
                         /\ navigationLayouts' = navigationLayouts
      ]_vars

\* the part of C29 that is about the layout and the sidebar snapshot
C29_SaveKeepsSidebarSnapshot ==
    [][\A name \in NavNames :
          SaveStoresRecord(name)
             => /\ workspaces'[name].layout =
                      IF call.pc = "save_read" THEN call.ws.layout
                      ELSE engineLayout
                /\ ~settings.rememberNavigationLayout
                      => navigationLayouts' = navigationLayouts
      ]_vars

-----------------------------------------------------------------------------
(* Claims about the create gesture *)

\* the first step of a create gesture on what was typed
CreateGestureStep(typed) ==
    /\ watch'.notice.odd # watch.notice.odd
    /\ watch'.notice.typed = typed

\* C30: a create gesture with a name that is blank or has a record shows a
\* notice of rejection and changes nothing: the records, the active pointer,
\* the persists asked for and the persisted data stay as they are.
C30_CreateRejectedNoChange ==
    [][\A typed \in PNames \cup {" "} :
          (/\ CreateGestureStep(typed)
           /\ IsBlank(typed) \/ Trim(typed) \in DOMAIN workspaces)
             => /\ watch'.notice.text =
                      IF IsBlank(typed) THEN "Please enter a workspace name"
                      ELSE "already exists"
                /\ UNCHANGED <<workspaces, activeWorkspace, navigationLayouts,
                               call, gesture, persistVars>>
      ]_vars

\* a create gesture on the name of a stored workspace was rejected last,
\* after the rejection of a blank name
C30_Witness ==
    /\ watch.notice.text = "already exists"
    /\ watch.notice.typed \in DOMAIN workspaces
    /\ ~watch.notice.odd

-----------------------------------------------------------------------------
(* Duplicate (src/unnamed/part_000, command duplicate-current-workspace)    *)

\* the most duplicates asked for in a run of the specification SpecDup
MaxCopies == 2

\* `${workspaceName} (copy)` and `${workspaceName} (copy ${counter})`
CopyName(workspaceName, counter) ==
    IF counter = 1 THEN workspaceName \o " (copy)"
    ELSE workspaceName \o " (copy " \o ToString(counter) \o ")"

UniqueCopyNameUnchecked(workspaceName, counter) ==
    CopyName(workspaceName, counter)
\* the while loop of the command: the name of the first counter, from
\* counter on, that hasWorkspace does not know
RECURSIVE UniqueCopyName(_, _)
UniqueCopyName(workspaceName, counter) ==
    IF HasWorkspace(CopyName(workspaceName, counter))
    THEN UniqueCopyName(workspaceName, counter + 1)
    ELSE CopyName(workspaceName, counter)

\* JSON.parse(JSON.stringify(layout)) of a sidebar snapshot: an object with
\* the same fields, all of them booleans, strings and numbers
JsonCopy(snapshot) == [f \in DOMAIN snapshot |-> snapshot[f]]

\* the names that share an object once name holds an object of its own or
\* holds none
AliasesWithout(pairs, name) == {p \in pairs : name \notin p}

AliasesAfterCopyShared(pairs, source, target) ==
    AliasesWithout(pairs, target) \cup {{source, target}}
\* navigationLayouts.set(newName, JSON.parse(JSON.stringify(layout))): the
\* entry of the new name is an object no other name holds
AliasesAfterCopy(pairs, source, target) == AliasesWithout(pairs, target)

\* WorkspaceManager.duplicateWorkspace(sourceName, newName): it fails when
\* the source has no record or the new name has one, and otherwise stores
\* under the new name a copy of the layout and of the navigation state of
\* the source that shares nothing with it
DuplicateWorkspace(sourceName, newName) ==
    /\ IF sourceName \notin DOMAIN workspaces
       THEN /\ last' = Report("duplicate", "notfound", "none", FALSE, FALSE)
            /\ UNCHANGED <<workspaces, aliased>>
       ELSE IF newName \in DOMAIN workspaces
       THEN /\ last' = Report("duplicate", "exists", "none", FALSE, FALSE)
            /\ UNCHANGED <<workspaces, aliased>>
       ELSE /\ workspaces' =
                  Put(workspaces, newName,
                      WorkspaceData(workspaces[sourceName].layout,
                                    workspaces[sourceName].folderExpandState))
            /\ last' = Report("duplicate", "ok", "none", FALSE, FALSE)
            /\ aliased' =
                  [ws |-> AliasesWithout(aliased.ws, newName),
                   nav |-> IF sourceName \in DOMAIN navigationLayouts
                           THEN AliasesAfterCopy(aliased.nav, sourceName, newName)
                           ELSE aliased.nav]
    /\ UNCHANGED <<activeWorkspace, engineLayout, folderStore, fsPending,
                   explorer, panelVars, settings, isLoadingWorkspace, call>>

\* the callback of the command, its saveSettings apart: the notice 'No active
\* workspace', or the name search, the duplicate and the copy of the sidebar
\* snapshot
DuplicateCurrentWorkspace ==
    IF activeWorkspace = NullName
    THEN /\ watch' = [watch EXCEPT !.dup = [source |-> NullName, target |-> "",
                                            gesture |-> TRUE,
                                            calls |-> @.calls + 1]]
         /\ UNCHANGED <<memVars, last, aliased>>
    ELSE LET newName == UniqueCopyName(activeWorkspace, 1) IN
         /\ DuplicateWorkspace(activeWorkspace, newName)
         /\ watch' = [watch EXCEPT !.dup = [source |-> activeWorkspace,
                                            target |-> newName,
                                            gesture |-> TRUE,
                                            calls |-> @.calls + 1]]
         /\ navigationLayouts' =
               IF activeWorkspace \in DOMAIN navigationLayouts
               THEN [k \in DOMAIN navigationLayouts \cup {newName} |->
                        IF k = newName
                        THEN JsonCopy(navigationLayouts[activeWorkspace])
                        ELSE navigationLayouts[k]]
               ELSE navigationLayouts

\* the names a direct call of duplicate is made with
DupSources == {"A", "B"}
DupTargets == {"A", "A (copy 2)"}

DFrame ==
    UNCHANGED <<roundTrip, persistVars, timerVars, listVars, sidebarView,
                dataWorkspaceName>>

\* 'Save current workspace': the snapshot and then the record of the active
\* workspace become objects of their own
DSave ==
    /\ Idle /\ SaveCurrentWorkspace /\ DFrame /\ UNCHANGED watch
    /\ aliased' = [aliased EXCEPT !.nav = AliasesWithout(@, activeWorkspace)]
DNavSaved ==
    /\ NavigationLayoutSaved(FALSE) /\ DFrame /\ UNCHANGED watch
    /\ aliased' = [aliased EXCEPT !.ws = AliasesWithout(@, call.name)]
DSaveResumed ==
    /\ SaveResume /\ DFrame /\ UNCHANGED watch
    /\ aliased' = [aliased EXCEPT !.ws = AliasesWithout(@, call.name)]
\* the user opens or closes the left sidebar
DPanel ==
    /\ Idle /\ UNCHANGED rightCollapsed /\ SidebarToggled
    /\ DFrame /\ UNCHANGED <<watch, aliased>>
DLayout ==
    \E l \in Layouts :
        Idle /\ LayoutChange(l) /\ DFrame /\ UNCHANGED <<watch, aliased>>
DActivate ==
    \E name \in DOMAIN workspaces :
        /\ Idle /\ name # activeWorkspace
        /\ SetActiveWorkspace(name) /\ DFrame /\ UNCHANGED <<watch, aliased>>
DDelete ==
    \E name \in DOMAIN workspaces :
        /\ Idle /\ ModalDelete(name) /\ DFrame /\ UNCHANGED watch
        /\ aliased' = [ws |-> AliasesWithout(aliased.ws, name),
                       nav |-> AliasesWithout(aliased.nav, name)]
\* the gesture of the command palette and of the editor (cloneWorkspace)
DDuplicateGesture ==
    /\ Idle
    /\ watch.dup.calls < MaxCopies
    /\ DuplicateCurrentWorkspace
    /\ DFrame
\* a direct call of the store operation
DDuplicate ==
    \E source \in DupSources, target \in DupTargets :
        /\ Idle
        /\ watch.dup.calls < MaxCopies
        /\ DuplicateWorkspace(source, target)
        /\ watch' = [watch EXCEPT !.dup = [source |-> source,
                                           target |-> target,
                                           gesture |-> FALSE,
                                           calls |-> @.calls + 1]]
        /\ UNCHANGED navigationLayouts
        /\ DFrame

NextDup ==
    \/ DSave
    \/ DNavSaved
    \/ DSaveResumed
    \/ DPanel
    \/ DLayout
    \/ DActivate
    \/ DDelete
    \/ DDuplicateGesture
    \/ DDuplicate

SpecDup == InitView /\ [][NextDup]_vars

-----------------------------------------------------------------------------
(* Claims about duplicate *)

\* a call of duplicate was made in the step
DuplicateCalled == watch'.dup.calls # watch.dup.calls /\ watch'.dup.source # NullName

\* C26: a duplicate whose source has no record or whose new name has one
\* fails and leaves the records, the active pointer and the sidebar snapshots
\* as they were; any other duplicate adds the new name with a record equal to
\* the source's (and, from the gesture, a sidebar snapshot equal to the
\* source's) and changes no other entry; no two names ever share the object
\* of their record or of their snapshot, and a step that changes the record
\* or the snapshot of one name changes that of no other name.
C26_DuplicateDeepCopy ==
    [][/\ DuplicateCalled =>
            LET source == watch'.dup.source
                target == watch'.dup.target
            IN  IF source \notin DOMAIN workspaces \/ target \in DOMAIN workspaces
                THEN /\ last'.res \in {"notfound", "exists"}
                     /\ UNCHANGED <<workspaces, activeWorkspace, navigationLayouts>>
                ELSE /\ DOMAIN workspaces' = DOMAIN workspaces \cup {target}
                     /\ workspaces'[target] = workspaces[source]
                     /\ \A k \in DOMAIN workspaces : workspaces'[k] = workspaces[k]
                     /\ activeWorkspace' = activeWorkspace
                     /\ (watch'.dup.gesture /\ source \in DOMAIN navigationLayouts)
                           => /\ target \in DOMAIN navigationLayouts'
                              /\ navigationLayouts'[target] = navigationLayouts[source]
                     /\ \A k \in DOMAIN navigationLayouts \ {target} :
                           /\ k \in DOMAIN navigationLayouts'
                           /\ navigationLayouts'[k] = navigationLayouts[k]
       /\ aliased' = NoAlias
       /\ \A a \in DOMAIN workspaces \cap DOMAIN workspaces' :
             workspaces'[a] # workspaces[a]
                => \A b \in (DOMAIN workspaces \cap DOMAIN workspaces') \ {a} :
                      workspaces'[b] = workspaces[b]
       /\ \A a \in DOMAIN navigationLayouts \cap DOMAIN navigationLayouts' :
             navigationLayouts'[a] # navigationLayouts[a]
                => \A b \in (DOMAIN navigationLayouts
                               \cap DOMAIN navigationLayouts') \ {a} :
                      navigationLayouts'[b] = navigationLayouts[b]
      ]_vars

\* the gesture duplicated a workspace that had a sidebar snapshot, and a later
\* save of one of the two has left them with different layouts and snapshots
C26_Witness ==
    LET source == watch.dup.source
        target == watch.dup.target
    IN  /\ watch.dup.gesture
        /\ {source, target} \subseteq DOMAIN workspaces
        /\ {source, target} \subseteq DOMAIN navigationLayouts
        /\ workspaces[source].layout # workspaces[target].layout
        /\ navigationLayouts[source] # navigationLayouts[target]

\* C27: the duplicate gesture on an active workspace calls duplicate with the
\* name "<source> (copy)" when the store has no such key and otherwise with
\* "<source> (copy N)" for the least N >= 2 that is no key; the search takes
\* at most one more try than the store has keys, the name is no key when
\* duplicate is called, the duplicate adds it and no record is overwritten.
C27_GeneratedNameUnused ==
    [][(/\ watch'.dup.calls # watch.dup.calls
        /\ watch'.dup.gesture
        /\ activeWorkspace # NullName)
          => \E n \in 1..(Cardinality(DOMAIN workspaces) + 1) :
                /\ \A j \in 1..(n - 1) :
                      CopyName(activeWorkspace, j) \in DOMAIN workspaces
                /\ CopyName(activeWorkspace, n) \notin DOMAIN workspaces
                /\ watch'.dup.target = CopyName(activeWorkspace, n)
                /\ n = 1 => watch'.dup.target = activeWorkspace \o " (copy)"
                /\ DOMAIN workspaces' =
                      DOMAIN workspaces \cup {CopyName(activeWorkspace, n)}
                /\ \A k \in DOMAIN workspaces : workspaces'[k] = workspaces[k]
      ]_vars

\* the gesture has generated "A (copy 2)" because "A (copy)" was a key
C27_Witness ==
    /\ watch.dup.gesture
    /\ watch.dup.source = "A"
    /\ watch.dup.target = "A (copy 2)"
    /\ {"A", "A (copy)", "A (copy 2)"} \subseteq DOMAIN workspaces

\* the gesture has generated "A (copy)" although "A (copy 2)" was a key
C27_WitnessFirstUnused ==
    /\ watch.dup.gesture
    /\ watch.dup.target = "A (copy)"
    /\ {"A", "A (copy)", "A (copy 2)"} \subseteq DOMAIN workspaces

-----------------------------------------------------------------------------
(* Selection in the switcher with Shift or Alt (src/unnamed/part_004,       *)
(* WorkspaceSwitcherModal.onChooseItem)                                     *)

SwitchNames == {"Alpha", "Notes 1"}
\* shiftKey and altKey of onChooseItem
Modifiers == {"shift", "alt"}

\* the items on display once the handler of a selection made with the
\* modifier key has returned: the Shift branch ends with this.close(), the
\* Alt branch returns without it
ListedAfterChoice(key, items) == IF key = "shift" THEN << >> ELSE items

\* onload with two stored workspaces, of which Alpha is active
InitSwitch ==
    /\ workspaces = [n \in SwitchNames |->
                        WorkspaceData(IF n = "Alpha" THEN "L1" ELSE "L2", JNull)]
    /\ activeWorkspace = "Alpha"
    /\ engineLayout = "L1"
    /\ folderStore = JNull
    /\ fsPending = NoWrite
    /\ explorer = [enabled |-> TRUE, expanded |-> {}]
    /\ leftCollapsed = FALSE
    /\ rightCollapsed = FALSE
    /\ navigationLayouts = EmptyMap
    /\ isLoadingWorkspace = FALSE
    /\ settings = DefaultSettings
    /\ call = IdleCall
    /\ last = Report("none", "none", "none", FALSE, FALSE)
    /\ roundTrip = NoRoundTrip
    /\ disk = NoData
    /\ saveQueue = EmptyQueue
    /\ queueWrite = NoSaveData
    /\ directWrite = NoSaveData
    /\ gesture = "none"
    /\ timers = {}
    /\ autoSaveTimeout = NullTimer
    /\ lifecycle = "running"
    /\ auto = IdleAuto
    /\ watch = NoWatch
    /\ keys = <<"Alpha", "Notes 1">>
    /\ listed = << >>
    /\ sidebarView = DefaultView
    /\ dataWorkspaceName = DataAttribute("Alpha")
    /\ aliased = NoAlias

SFrame ==
    UNCHANGED <<roundTrip, disk, saveQueue, queueWrite, directWrite, timerVars,
                keys, uiVars>>

\* the handler of the selection ends here: it returned or it raised
HandlerEnds(stage) ==
    /\ gesture' = "none"
    /\ watch' = [watch EXCEPT !.sel.stage = stage]

\* the user opens the switcher
SOpen ==
    /\ SwitcherClosed /\ Idle /\ gesture = "none"
    /\ ListRequested
    /\ UNCHANGED <<gesture, watch>> /\ SFrame

\* the user chooses an item with Shift or Alt held while a workspace is
\* active: the handler up to the await in saveNavigationLayout
SChoose ==
    \E key \in Modifiers, target \in Range(listed) :
        /\ Idle /\ gesture = "none"
        /\ activeWorkspace # NullName
        /\ SaveCurrentWorkspace
        /\ gesture' = key
        /\ watch' = [watch EXCEPT !.sel = [key |-> key, target |-> target,
                                           current |-> activeWorkspace,
                                           captured |-> "", stage |-> "saving"]]
        /\ UNCHANGED listed /\ SFrame

\* saveNavigationLayout returns and saveWorkspace is called: it captures the
\* layout and awaits the folder state, or getLayout raises
SNavSaved ==
    \E throws \in BOOLEAN :
        /\ gesture # "none"
        /\ NavigationLayoutSaved(throws)
        /\ gesture' = IF last'.res = "raised" THEN "none" ELSE gesture
        /\ watch' = [watch EXCEPT
              !.sel.captured = engineLayout,
              !.sel.stage = IF last'.res = "raised" THEN "raised"
                            ELSE IF call'.pc = "idle" THEN "saved" ELSE "saving"]
        /\ UNCHANGED listed /\ SFrame

\* saveWorkspace stores the record and returns
SSaveResumed ==
    /\ gesture # "none"
    /\ SaveResume
    /\ watch' = [watch EXCEPT !.sel.stage = "saved"]
    /\ UNCHANGED <<gesture, listed>> /\ SFrame

SSaveReadRejects ==
    /\ gesture # "none"
    /\ SaveReadRejects
    /\ HandlerEnds("raised")
    /\ UNCHANGED listed /\ SFrame

\* the handler goes on: plugin.loadWorkspace(workspace)
SLoadBegins ==
    \E throws \in BOOLEAN :
        /\ gesture # "none" /\ watch.sel.stage = "saved"
        /\ PluginLoadWorkspace(watch.sel.target, throws)
        /\ gesture' = IF call'.pc = "idle" THEN "none" ELSE gesture
        /\ watch' = [watch EXCEPT
              !.sel.stage = IF call'.pc = "idle" THEN "raised" ELSE "loading"]
        /\ UNCHANGED listed /\ SFrame

SFolderWritten ==
    /\ gesture # "none"
    /\ FsWriteDone
    /\ UNCHANGED <<gesture, watch, listed>> /\ SFrame

SFolderWriteRejects ==
    /\ gesture # "none"
    /\ FsWriteRejects
    /\ HandlerEnds("raised")
    /\ UNCHANGED listed /\ SFrame

\* changeLayout ends and loadWorkspace returns or raises; when it returns the
\* handler shows its notice and, in the Shift branch, closes the switcher
SApplied ==
    \E ok \in BOOLEAN, took \in BOOLEAN, pl \in BOOLEAN, pr \in BOOLEAN :
        /\ gesture # "none"
        /\ LayoutApplied(ok, took, pl, pr)
        /\ IF last'.res = "ok"
           THEN /\ HandlerEnds("returned")
                /\ listed' = ListedAfterChoice(gesture, listed)
           ELSE /\ HandlerEnds("raised")
                /\ UNCHANGED listed
        /\ SFrame

\* the user rearranges the panes; the handler is not between two awaits that
\* follow each other without a pause
SLayout ==
    \E l \in Layouts :
        /\ watch.sel.stage # "saved"
        /\ LayoutChange(l)
        /\ UNCHANGED <<gesture, watch, listed>> /\ SFrame

NextSwitch ==
    \/ SOpen
    \/ SChoose
    \/ SNavSaved
    \/ SSaveResumed
    \/ SSaveReadRejects
    \/ SLoadBegins
    \/ SFolderWritten
    \/ SFolderWriteRejects
    \/ SApplied
    \/ SLayout

SpecSwitch == InitSwitch /\ [][NextSwitch]_vars

-----------------------------------------------------------------------------
(* Claims about the selection with Shift or Alt *)

\* the handler of the selection returns in the step, after its load
ChoiceReturns == watch.sel.stage = "loading" /\ watch'.sel.stage = "returned"
\* the load of the handler begins in the step
ChoiceLoadBegins == watch.sel.stage # "loading" /\ watch'.sel.stage = "loading"
\* the switcher closes in the step
SwitcherClosesNow == listed # << >> /\ listed' = << >>

\* what C25 says of the selections made with the modifier of keySet
SaveThenLoadThenClose(keySet) ==
    /\ (ChoiceLoadBegins /\ watch.sel.key \in keySet)
          => /\ watch.sel.stage = "saved"
             /\ last.op = "save" /\ last.res = "ok"
             /\ workspaces[watch.sel.current].layout = watch.sel.captured
    /\ (SwitcherClosesNow /\ watch.sel.key \in keySet) => ChoiceReturns
    /\ (ChoiceReturns /\ watch.sel.key \in keySet)
          => /\ SwitcherClosesNow
             /\ workspaces'[watch.sel.current].layout = watch.sel.captured
             /\ activeWorkspace' = watch.sel.target

C25_ShiftSaveThenLoadThenClose == [][SaveThenLoadThenClose({"shift"})]_vars

\* a selection of Notes 1 made with Shift while Alpha was active has
\* returned: the switcher is closed, Notes 1 is active and Alpha holds the
\* layout the save captured
C25_ShiftWitness ==
    /\ watch.sel = [key |-> "shift", target |-> "Notes 1", current |-> "Alpha",
                    captured |-> "L2", stage |-> "returned"]
    /\ SwitcherClosed
    /\ activeWorkspace = "Notes 1"
    /\ workspaces["Alpha"].layout = "L2"

-----------------------------------------------------------------------------
(* Claims about failures and about the frame of the store operations *)

\* a save reports in the step that it failed
SaveFailsNow ==
    /\ last'.op = "save" /\ last'.res = "raised"
    /\ last' # last \/ call' # call

\* C31: a save whose capture of the layout or whose read of the folder-state
\* store fails reports the error and changes neither the records nor the
\* active pointer, and a save that is suspended on that read has stored
\* nothing yet.
C31_FailedSaveNoChange ==
    [][/\ SaveFailsNow => UNCHANGED <<workspaces, activeWorkspace>>
       /\ call'.pc = "save_read" => UNCHANGED <<workspaces, activeWorkspace>>
      ]_vars

\* a save of the active workspace has failed after the layout had changed:
\* the record keeps its layout
C31_Witness ==
    /\ last.op = "save" /\ last.res = "raised"
    /\ Idle
    /\ activeWorkspace \in DOMAIN workspaces
    /\ workspaces[activeWorkspace].layout # engineLayout

-----------------------------------------------------------------------------
(* Claims about the auto-save and the loads *)

\* the timer callback begins, calls saveWorkspace or stores its record in the
\* step
AutoSaveActs ==
    /\ auto' # auto
    /\ ~(auto'.pc = "idle" /\ UNCHANGED <<workspaces, activeWorkspace>>)

\* C32: between the start of a load and its completion the auto-save does
\* nothing: the timer callback does not begin, does not call saveWorkspace
\* and stores no record while a load is outstanding, whenever its timer was
\* set.
C32_NoAutoSaveDuringLoad == [][LoadOutstanding => ~AutoSaveActs]_vars

\* SpecNav with the host bound to settle what the plugin awaits: the write to
\* localStorage completes or rejects and changeLayout returns or raises; the
\* user is bound to nothing
SpecNavFair ==
    /\ SpecNav
    /\ WF_vars(NavFolderWritten \/ NavFolderWriteFailed)
    /\ WF_vars(NavApplied)

\* C33: after every call of the plugin's loadWorkspace, whatever its outcome,
\* isLoadingWorkspace becomes false again.
C33_LoadingFlagCleared == isLoadingWorkspace ~> ~isLoadingWorkspace

\* the part of C33 about the loads that reach the end of the manager's load:
\* a load that sets the active workspace has cleared the flag
C33_ClearedByFinishedLoad ==
    [][(call.pc = "load_apply" /\ last'.op = "load" /\ last'.res = "ok")
          => ~isLoadingWorkspace']_vars

-----------------------------------------------------------------------------
(* Specification of the auto-save beside the delete and the rename of the    *)
(* switcher: layout changes, time, the timer callback, deletes and renames   *)

\* the names typed in a rename
StaleNames == {"B", "C"}

\* doDelete of the switcher while timers are pending
TDelete ==
    \E name \in DOMAIN workspaces :
        /\ lifecycle = "running"
        /\ ModalDelete(name)
        /\ UNCHANGED <<timerVars, watch>>
        /\ AFrame

\* handleRename of the switcher while timers are pending
TRename ==
    \E o \in DOMAIN workspaces, typed \in StaleNames :
        /\ lifecycle = "running"
        /\ HandleRename(o, typed)
        /\ UNCHANGED <<timerVars, watch>>
        /\ AFrame

NextStale ==
    \/ ANotify
    \/ ATick
    \/ AFire
    \/ ASaveCall
    \/ ASaveResume
    \/ ASaveFails
    \/ TDelete
    \/ TRename

SpecStale == InitAuto /\ [][NextStale]_vars

\* C34: the callback of an auto-save timer adds no record and moves the
\* active pointer to no name that has no record: when the workspace the timer
\* was set for has been deleted or renamed, the callback leaves the old name
\* without a record and the active pointer off it.
C34_TimerNeverRecreates ==
    [][(auto.pc # "idle" /\ auto' # auto /\ auto.name \notin DOMAIN workspaces)
          => /\ auto.name \notin DOMAIN workspaces'
             /\ activeWorkspace' # auto.name
      ]_vars

-----------------------------------------------------------------------------
(* Specification of the store with overlapping operations: delete, rename    *)
(* and setActiveWorkspace are called while a save or a load is suspended at  *)
(* an await. The names are ordinary names.                                   *)

OverlapNames == {"A", "B"}

OSave ==
    \E name \in OverlapNames, f \in BOOLEAN :
        /\ Idle /\ SaveCall(name, f, FALSE)
        /\ UNCHANGED <<roundTrip, extVars>>
OLoad ==
    \E name \in OverlapNames, f \in BOOLEAN :
        /\ Idle /\ LoadCall(name, f, FALSE)
        /\ UNCHANGED <<isLoadingWorkspace, roundTrip, extVars>>
ODelete ==
    \E name \in OverlapNames :
        /\ DeleteWorkspace(name)
        /\ UNCHANGED <<navigationLayouts, roundTrip, extVars>>
ORename ==
    \E o \in OverlapNames, n \in OverlapNames :
        /\ RenameWorkspace(o, n)
        /\ UNCHANGED <<navigationLayouts, roundTrip, extVars>>
OSetActive ==
    \E name \in OverlapNames :
        /\ name # activeWorkspace
        /\ SetActiveWorkspace(name)
        /\ UNCHANGED <<roundTrip, extVars>>

NextOverlap ==
    \/ OSave
    \/ SaveResumed
    \/ OLoad
    \/ FolderWritten
    \/ Applied
    \/ ODelete
    \/ ORename
    \/ OSetActive
    \/ EnvLayout

SpecOverlap == Init /\ [][NextOverlap]_vars

\* C35: in every state the store's operations reach from the empty store, in
\* any interleaving, the active pointer is none or names a record.
C35_ActivePointerNotDangling ==
    activeWorkspace = NullName \/ activeWorkspace \in DOMAIN workspaces

\* C36: whenever no gesture and no timer callback is in progress, every name
\* that has a sidebar snapshot in the navigation-layout cache has a record in
\* the store.
C36_SnapshotsHaveRecords ==
    (Idle /\ auto.pc = "idle")
       => DOMAIN navigationLayouts \subseteq DOMAIN workspaces

-----------------------------------------------------------------------------
(* Specification of the body attribute beside the create, the load and the   *)
(* delete of the switcher, from a layout that is ready with A active         *)

\* createNewWorkspace of the switcher with a name typed
VCreate ==
    \E typed \in ViewNames :
        /\ Idle
        /\ ~(IsBlank(typed) \/ HasWorkspace(Trim(typed)))
        /\ CreateNewWorkspace(typed, FALSE)
        /\ VFrame /\ UNCHANGED uiVars

\* doDelete of the switcher
VDelete ==
    \E name \in DOMAIN workspaces :
        Idle /\ ModalDelete(name) /\ VFrame /\ UNCHANGED uiVars

NextAttr ==
    \/ VCreate
    \/ VSaveResumed
    \/ VLoad
    \/ VFolderWritten
    \/ VApplied
    \/ VDelete
    \/ VPanel

SpecAttr == InitView /\ [][NextAttr]_vars

\* C37: once the layout is ready and whenever no gesture is in progress, the
\* body's data-workspace-name attribute is the name of the active workspace,
\* and is absent when no workspace is active.
C37_AttributeIsActiveWorkspace == Idle => dataWorkspaceName = activeWorkspace

\* the part of C37 about the loads: a load that has made a workspace active
\* has set the attribute to its name
C37_AttributeSetByLoad ==
    [][(call.pc = "load_apply" /\ last'.op = "load" /\ last'.res = "ok")
          => dataWorkspaceName' = activeWorkspace']_vars

-----------------------------------------------------------------------------
(* Claim about the frame of the store operations *)

\* every record but those of the names in S is as it was, and no record but
\* theirs has come or gone
OthersUnchanged(S) ==
    /\ DOMAIN workspaces' \ S = DOMAIN workspaces \ S
    /\ \A k \in DOMAIN workspaces \ S : workspaces'[k] = workspaces[k]

\* C38: a step of load changes no record; a step of save(name) and a
\* delete(name) change no record but that of name; a rename(old, new)
\* changes no record but those of old and new. (A step that changes a record
\* is no step of a load, and is within the frame of the operation it is of.)
C38_OperationsChangeOnlyNamedRecords ==
    [][\/ workspaces' = workspaces
       \/ /\ \A name \in AllNames, f \in BOOLEAN, t \in BOOLEAN :
                /\ ~(Idle /\ LoadCall(name, f, t))
                /\ (Idle /\ SaveCall(name, f, t)) => OthersUnchanged({name})
          /\ ~(FsWriteDone \/ FsWriteRejects)
          /\ call.pc # "load_apply"
          /\ (call.pc = "save_read" /\ call'.pc = "idle")
                => OthersUnchanged({call.name})
          /\ \A name \in AllNames :
                (Idle /\ DeleteWorkspace(name)) => OthersUnchanged({name})
          /\ \A o \in AllNames, n \in AllNames :
                (Idle /\ RenameWorkspace(o, n)) => OthersUnchanged({o, n})
      ]_vars

\* a rename has succeeded in a store of two records, the other of which has
\* another layout
C38_Witness ==
    /\ last.op = "rename" /\ last.res = "ok"
    /\ Cardinality(DOMAIN workspaces) = 2
    /\ \E a \in DOMAIN workspaces, b \in DOMAIN workspaces :
          workspaces[a].layout # workspaces[b].layout

====
